---- MODULE Spec2Model ----
(***************************************************************************)
(* A model of the example-generation engine of ToonFetchMCPServer          *)
(* (src/src/mcp-server.ts): resolveRef and its memo refCache,              *)
(* generateExampleValue, the parameter and request-body code generators,   *)
(* and generateCodeExample with its bounded TTL cache exampleCache.        *)
(***************************************************************************)
EXTENDS Integers, Sequences, FiniteSets, TLC

VARIABLES refCache, exampleCache, now, builds, last, pending

vars == <<refCache, exampleCache, now, builds, last, pending>>

(***************************************************************************)
(* Bounds of the model and the cache configuration.                        *)
(***************************************************************************)
MaxTime == 2
MaxBuilds == 3
MaxPending == 4
MaxStack == 8
exampleSize == 2
exampleTTL == 2

(***************************************************************************)
(* JSON values.  Every value is a record of the same four fields, so that  *)
(* any two values can be compared: kind is one of "undef", "null", "bool", *)
(* "num", "str", "arr", "obj"; ent is the ordered list of the entries of   *)
(* an object (or of an array, keyed "0", "1", ...).                        *)
(***************************************************************************)
Undef == [kind |-> "undef", ent |-> <<>>, s |-> "", n |-> 0]
Null == [kind |-> "null", ent |-> <<>>, s |-> "", n |-> 0]
Str(x) == [kind |-> "str", ent |-> <<>>, s |-> x, n |-> 0]
Num(x) == [kind |-> "num", ent |-> <<>>, s |-> "", n |-> x]
Bool(b) == [kind |-> "bool", ent |-> <<>>, s |-> "", n |-> IF b THEN 1 ELSE 0]
KV(k, v) == [k |-> k, v |-> v]
Obj(e) == [kind |-> "obj", ent |-> e, s |-> "", n |-> 0]
Arr(e) == [kind |-> "arr", ent |-> [i \in 1..Len(e) |-> KV(ToString(i - 1), e[i])], s |-> "", n |-> 0]

\* v[key] of JavaScript on own, enumerable entries: undefined when absent
Has(v, key) == \E i \in 1..Len(v.ent) : v.ent[i].k = key
Get(v, key) ==
  IF Has(v, key)
  THEN v.ent[CHOOSE i \in 1..Len(v.ent) : v.ent[i].k = key].v
  ELSE Undef

\* ToBoolean of JavaScript
Truthy(v) ==
  CASE v.kind \in {"obj", "arr"} -> TRUE
    [] v.kind = "str" -> v.s # ""
    [] v.kind = "num" -> v.n # 0
    [] v.kind = "bool" -> v.n = 1
    [] OTHER -> FALSE

\* typeof v === 'object'
TypeofObject(v) == v.kind \in {"obj", "arr", "null"}

(***************************************************************************)
(* The loaded documents.  Two APIs whose documents use the same ref        *)
(* strings for different schemas, schemas that reference themselves, a     *)
(* reference to a missing schema, an external reference, a reference that  *)
(* passes through a string and a reference to the boolean schema false.    *)
(***************************************************************************)
RefUser == "#/components/schemas/User"
RefRole == "#/components/schemas/Role"
RefNode == "#/components/schemas/Node"
RefLoop == "#/components/schemas/Loop"
RefAlias == "#/components/schemas/Alias"
RefList == "#/components/schemas/List"
RefMissing == "#/components/schemas/Missing"
RefExternal == "other.json#/components/schemas/User"
RefThroughString == "#/info/title/x"
RefNever == "#/components/schemas/Never"
RefBase == "#/components/schemas/Base"
RefExtra == "#/components/schemas/Extra"
RefCat == "#/components/schemas/Cat"
RefDog == "#/components/schemas/Dog"

Ref(r) == Obj(<<KV("$ref", Str(r))>>)

JsonBody(schema) ==
  Obj(<<KV("content", Obj(<<KV("application/json", Obj(<<KV("schema", schema)>>))>>))>>)

Param(name, where, schema) ==
  Obj(<<KV("name", Str(name)), KV("in", Str(where)), KV("schema", schema)>>)

ShopUser ==
  Obj(<<KV("type", Str("object")),
        KV("required", Arr(<<Str("id"), Str("ghost")>>)),
        KV("properties", Obj(<<
          KV("id", Obj(<<KV("type", Str("string")), KV("format", Str("uuid"))>>)),
          KV("name", Obj(<<KV("type", Str("string"))>>)),
          KV("meta", Obj(<<KV("description", Str("free form"))>>)),
          KV("owner", Ref(RefMissing)),
          KV("role", Obj(<<KV("$ref", Str(RefRole)), KV("example", Str("admin"))>>)),
          KV("grade", Ref(RefRole)),
          KV("tags", Obj(<<KV("type", Str("array")),
                           KV("items", Obj(<<KV("type", Str("integer"))>>))>>))
        >>))>>)

ShopRole ==
  Obj(<<KV("type", Str("string")),
        KV("default", Str("member")),
        KV("enum", Arr(<<Str("guest"), Str("member")>>))>>)

ShopNode ==
  Obj(<<KV("type", Str("object")),
        KV("properties", Obj(<<KV("child", Ref(RefNode))>>))>>)

ShopList ==
  Obj(<<KV("type", Str("array")), KV("items", Ref(RefList))>>)

\* Base and Extra both define kind, with different types
ShopBase ==
  Obj(<<KV("type", Str("object")),
        KV("required", Arr(<<Str("id")>>)),
        KV("properties", Obj(<<
          KV("id", Obj(<<KV("type", Str("string")), KV("format", Str("uuid"))>>)),
          KV("kind", Obj(<<KV("type", Str("string"))>>))>>))>>)

ShopExtra ==
  Obj(<<KV("required", Arr(<<Str("kind")>>)),
        KV("properties", Obj(<<
          KV("kind", Obj(<<KV("type", Str("integer"))>>)),
          KV("note", Obj(<<KV("type", Str("string"))>>))>>))>>)

ShopCat ==
  Obj(<<KV("type", Str("object")),
        KV("required", Arr(<<Str("name")>>)),
        KV("properties", Obj(<<
          KV("name", Obj(<<KV("type", Str("string"))>>)),
          KV("lives", Obj(<<KV("type", Str("integer"))>>))>>))>>)

ShopDog ==
  Obj(<<KV("type", Str("object")),
        KV("required", Arr(<<Str("bark")>>)),
        KV("properties", Obj(<<KV("bark", Obj(<<KV("type", Str("boolean"))>>))>>))>>)

ShopDoc ==
  Obj(<<
    KV("info", Obj(<<KV("title", Str("Shop"))>>)),
    KV("paths", Obj(<<
      KV("/users", Obj(<<
        KV("post", Obj(<<KV("operationId", Str("createUser")),
                         KV("requestBody", JsonBody(Ref(RefUser)))>>)),
        KV("get", Obj(<<KV("operationId", Str("listUsers")),
                        KV("parameters", Arr(<<
                          Param("q", "query", Obj(<<>>)),
                          Param("kind", "query", Obj(<<KV("enum", Arr(<<Str("a"), Str("b")>>)),
                                                        KV("type", Str("integer"))>>)),
                          Param("src", "query", Ref(RefExternal)),
                          Param("deep", "query", Ref(RefThroughString)),
                          Param("beta", "query", Ref(RefNever))>>))>>))>>)),
      KV("/users/{userId}", Obj(<<
        KV("get", Obj(<<KV("operationId", Str("getUser")),
                        KV("parameters", Arr(<<
                          Param("userId", "path", Obj(<<KV("type", Str("string"))>>)),
                          Param("rev", "path", Obj(<<KV("format", Str("int64"))>>))>>))>>))>>)),
      KV("/nodes", Obj(<<
        KV("post", Obj(<<KV("operationId", Str("createNode")),
                         KV("requestBody", JsonBody(Ref(RefNode)))>>))>>))>>)),
    KV("components", Obj(<<
      KV("schemas", Obj(<<
        KV("User", ShopUser),
        KV("Role", ShopRole),
        KV("Node", ShopNode),
        KV("List", ShopList),
        KV("Never", Bool(FALSE)),
        KV("Loop", Ref(RefLoop)),
        KV("Base", ShopBase),
        KV("Extra", ShopExtra),
        KV("Cat", ShopCat),
        KV("Dog", ShopDog),
        KV("Alias", Ref(RefUser))>>))>>))>>)

BlogUser ==
  Obj(<<KV("type", Str("object")),
        KV("required", Arr(<<Str("email")>>)),
        KV("properties", Obj(<<
          KV("email", Obj(<<KV("type", Str("string")), KV("format", Str("email"))>>)),
          KV("visits", Obj(<<KV("type", Str("number")), KV("default", Num(0))>>))>>))>>)

BlogDoc ==
  Obj(<<
    KV("info", Obj(<<KV("title", Str("Blog"))>>)),
    KV("paths", Obj(<<
      KV("/users", Obj(<<
        KV("post", Obj(<<KV("operationId", Str("createAuthor")),
                         KV("requestBody", JsonBody(Ref(RefUser)))>>))>>))>>)),
    KV("components", Obj(<<
      KV("schemas", Obj(<<KV("User", BlogUser)>>))>>))>>)

\* a document whose operations have summaries, and a path item with a key
\* that is not a method
PetsDoc ==
  Obj(<<
    KV("info", Obj(<<KV("title", Str("Pets"))>>)),
    KV("paths", Obj(<<
      KV("/pets", Obj(<<
        KV("parameters", Arr(<<>>)),
        KV("get", Obj(<<KV("operationId", Str("listPets")), KV("summary", Str("List pets"))>>)),
        KV("post", Obj(<<KV("operationId", Str("addPet"))>>))>>)),
      KV("/pets/{id}", Obj(<<
        KV("get", Obj(<<KV("operationId", Str("getPet")), KV("summary", Str("Find a pet"))>>)),
        KV("delete", Obj(<<KV("operationId", Str("removePet"))>>))>>)),
      KV("/owners", Obj(<<
        KV("get", Obj(<<KV("summary", Str("List Owners of PETS"))>>)),
        KV("post", Obj(<<KV("operationId", Str("addOwner"))>>))>>))>>))>>)

\* openapi-specs/geo.json: a path with a colon in it, a request body that
\* has no application/json content, one whose schema cannot be resolved and
\* one that is itself an unresolvable reference
GeoDoc ==
  Obj(<<
    KV("info", Obj(<<KV("title", Str("Geo"))>>)),
    KV("paths", Obj(<<
      KV("/v1:/places", Obj(<<
        KV("get", Obj(<<KV("operationId", Str("searchPlaces")),
                        KV("parameters", Arr(<<
                          Param("q", "query", Obj(<<KV("type", Str("string"))>>))>>))>>))>>)),
      KV("/upload", Obj(<<
        KV("post", Obj(<<KV("operationId", Str("upload")),
                         KV("requestBody", Obj(<<KV("content", Obj(<<
                           KV("text/plain", Obj(<<KV("schema",
                              Obj(<<KV("type", Str("string"))>>))>>))>>))>>))>>))>>)),
      KV("/import", Obj(<<
        KV("post", Obj(<<KV("operationId", Str("import")),
                         KV("requestBody", JsonBody(Ref(RefMissing)))>>))>>))>>))>>)

\* openapi-specs/geo:/v1.json
GeoV1Doc ==
  Obj(<<
    KV("info", Obj(<<KV("title", Str("Geo v1"))>>)),
    KV("paths", Obj(<<
      KV("/places", Obj(<<
        KV("get", Obj(<<KV("operationId", Str("listPlaces"))>>))>>))>>))>>)

ApiNames == {"shop", "blog", "pets", "geo", "geo:/v1"}

specs ==
  [a \in ApiNames |->
     CASE a = "shop" -> ShopDoc [] a = "blog" -> BlogDoc [] a = "pets" -> PetsDoc
       [] a = "geo" -> GeoDoc [] a = "geo:/v1" -> GeoV1Doc]

AllRefs ==
  {RefUser, RefRole, RefNode, RefLoop, RefList, RefMissing, RefExternal,
   RefThroughString, RefNever, RefBase, RefExtra, RefCat, RefDog, RefAlias}

(***************************************************************************)
(* Strings.  A ref string is read through its tokens, in which every '#'   *)
(* and every '/' character stands alone; a property name is read through   *)
(* its characters.                                                         *)
(***************************************************************************)
SchemaTokens(name) == <<"#", "/", "components", "/", "schemas", "/", name>>

Tokens(ref) ==
  CASE ref = RefUser -> SchemaTokens("User")
    [] ref = RefRole -> SchemaTokens("Role")
    [] ref = RefNode -> SchemaTokens("Node")
    [] ref = RefLoop -> SchemaTokens("Loop")
    [] ref = RefList -> SchemaTokens("List")
    [] ref = RefMissing -> SchemaTokens("Missing")
    [] ref = RefExternal -> <<"other.json">> \o SchemaTokens("User")
    [] ref = RefThroughString -> <<"#", "/", "info", "/", "title", "/", "x">>
    [] ref = RefNever -> SchemaTokens("Never")
    [] ref = RefBase -> SchemaTokens("Base")
    [] ref = RefExtra -> SchemaTokens("Extra")
    [] ref = RefCat -> SchemaTokens("Cat")
    [] ref = RefDog -> SchemaTokens("Dog")
    [] ref = RefAlias -> SchemaTokens("Alias")

RECURSIVE Join(_)
Join(toks) == IF toks = <<>> THEN "" ELSE Head(toks) \o Join(Tail(toks))

\* ref.startsWith('#/')
StartsWithHashSlash(toks) == Len(toks) >= 2 /\ toks[1] = "#" /\ toks[2] = "/"

\* path.split('/'): the pieces between the '/' characters, empty pieces kept
RECURSIVE Split(_)
Split(toks) ==
  IF \E i \in 1..Len(toks) : toks[i] = "/"
  THEN LET i == CHOOSE j \in 1..Len(toks) :
                  toks[j] = "/" /\ \A k \in 1..(j - 1) : toks[k] # "/"
       IN <<Join(SubSeq(toks, 1, i - 1))>> \o Split(SubSeq(toks, i + 1, Len(toks)))
  ELSE <<Join(toks)>>

(***************************************************************************)
(* resolveRef.  The walk of the document, then the memo around it.  The    *)
(* state threaded through a request is st = [cache, log, t]: the ref memo, *)
(* the resolveRef calls made so far and the time.                          *)
(***************************************************************************)
RECURSIVE WalkSegments(_, _, _)
WalkSegments(current, segments, i) ==
  IF i > Len(segments) THEN [stopped |-> FALSE, value |-> current]
  ELSE IF ~Truthy(current) \/ ~TypeofObject(current)
       THEN [stopped |-> TRUE, value |-> Null]
       ELSE WalkSegments(Get(current, segments[i]), segments, i + 1)

\* mutant: without the final check of lines 1067-1070
WalkRefAnyValue(ref, spec) ==
  IF ~StartsWithHashSlash(Tokens(ref)) THEN Null
  ELSE LET path == SubSeq(Tokens(ref), 3, Len(Tokens(ref)))
           w == WalkSegments(spec, Split(path), 1)
       IN IF w.stopped THEN Null
          ELSE IF w.value = Undef THEN Null ELSE w.value

\* lines 1046-1070: null, or the truthy value the segments lead to
WalkRef(ref, spec) ==
  IF ~StartsWithHashSlash(Tokens(ref)) THEN Null
  ELSE LET path == SubSeq(Tokens(ref), 3, Len(Tokens(ref)))
           w == WalkSegments(spec, Split(path), 1)
       IN IF w.stopped \/ ~Truthy(w.value) THEN Null ELSE w.value

NoEntry == Undef

CacheHas(cache, ref) == cache[ref] # NoEntry

\* mutant: the memo is written but never read
resolveRefAlwaysWalks(st, ref, api) ==
  LET resolved == WalkRef(ref, specs[api])
  IN [res |-> resolved,
      st |-> [st EXCEPT
                !.cache = IF resolved = Null THEN @ ELSE [@ EXCEPT ![ref] = resolved],
                !.log = Append(@, [ref |-> ref, api |-> api, walked |-> TRUE,
                                   res |-> resolved, had |-> CacheHas(st.cache, ref)])]]

\* lines 1039-1077
resolveRef(st, ref, api) ==
  IF CacheHas(st.cache, ref)
  THEN LET got == IF Truthy(st.cache[ref]) THEN st.cache[ref] ELSE Null
       IN [res |-> got,
           st |-> [st EXCEPT !.log = Append(@, [ref |-> ref, api |-> api, walked |-> FALSE,
                                                  res |-> got, had |-> TRUE])]]
  ELSE LET resolved == WalkRef(ref, specs[api])
       IN [res |-> resolved,
           st |-> [st EXCEPT
                     !.cache = IF resolved = Null THEN @ ELSE [@ EXCEPT ![ref] = resolved],
                     !.log = Append(@, [ref |-> ref, api |-> api, walked |-> TRUE,
                                        res |-> resolved, had |-> FALSE])]]

(***************************************************************************)
(* generateExampleValue.                                                   *)
(***************************************************************************)
Chars(name) ==
  CASE name = "id" -> <<"i", "d">>
    [] name = "name" -> <<"n", "a", "m", "e">>
    [] name = "meta" -> <<"m", "e", "t", "a">>
    [] name = "owner" -> <<"o", "w", "n", "e", "r">>
    [] name = "role" -> <<"r", "o", "l", "e">>
    [] name = "grade" -> <<"g", "r", "a", "d", "e">>
    [] name = "tags" -> <<"t", "a", "g", "s">>
    [] name = "q" -> <<"q">>
    [] name = "kind" -> <<"k", "i", "n", "d">>
    [] name = "src" -> <<"s", "r", "c">>
    [] name = "deep" -> <<"d", "e", "e", "p">>
    [] name = "beta" -> <<"b", "e", "t", "a">>
    [] name = "userId" -> <<"u", "s", "e", "r", "I", "d">>
    [] name = "rev" -> <<"r", "e", "v">>
    [] name = "page" -> <<"p", "a", "g", "e">>
    [] name = "self" -> <<"s", "e", "l", "f">>
    [] name = "child" -> <<"c", "h", "i", "l", "d">>
    [] name = "email" -> <<"e", "m", "a", "i", "l">>
    [] name = "visits" -> <<"v", "i", "s", "i", "t", "s">>
    [] name = "note" -> <<"n", "o", "t", "e">>
    [] name = "fullName" -> <<"f", "u", "l", "l", "N", "a", "m", "e">>
    [] name = "Email" -> <<"E", "m", "a", "i", "l">>
    [] name = "emailId" -> <<"e", "m", "a", "i", "l", "I", "d">>
    [] name = "tokenUrl" -> <<"t", "o", "k", "e", "n", "U", "r", "l">>
    [] name = "authToken" -> <<"a", "u", "t", "h", "T", "o", "k", "e", "n">>
    [] name = "homeURL" -> <<"h", "o", "m", "e", "U", "R", "L">>
    [] name = "video" -> <<"v", "i", "d", "e", "o">>
    [] name = "nameToken" -> <<"n", "a", "m", "e", "T", "o", "k", "e", "n">>
    [] name = "/pets" -> <<"/", "p", "e", "t", "s">>
    [] name = "/pets/{id}" -> <<"/", "p", "e", "t", "s", "/", "{", "i", "d", "}">>
    [] name = "/owners" -> <<"/", "o", "w", "n", "e", "r", "s">>
    [] name = "List pets" -> <<"L", "i", "s", "t", " ", "p", "e", "t", "s">>
    [] name = "Find a pet" -> <<"F", "i", "n", "d", " ", "a", " ", "p", "e", "t">>
    [] name = "List Owners of PETS" -> <<"L", "i", "s", "t", " ", "O", "w", "n", "e", "r", "s", " ", "o", "f", " ", "P", "E", "T", "S">>
    [] name = "listPets" -> <<"l", "i", "s", "t", "P", "e", "t", "s">>
    [] name = "addPet" -> <<"a", "d", "d", "P", "e", "t">>
    [] name = "getPet" -> <<"g", "e", "t", "P", "e", "t">>
    [] name = "removePet" -> <<"r", "e", "m", "o", "v", "e", "P", "e", "t">>
    [] name = "addOwner" -> <<"a", "d", "d", "O", "w", "n", "e", "r">>
    [] name = "pet" -> <<"p", "e", "t">>
    [] name = "PET" -> <<"P", "E", "T">>
    [] name = "list" -> <<"l", "i", "s", "t">>
    [] name = "owner" -> <<"o", "w", "n", "e", "r">>
    [] name = "zzz" -> <<"z", "z", "z">>
    [] name = "" -> <<>>

LowerChar(c) ==
  CASE c = "E" -> "e"
    [] c = "I" -> "i"
    [] c = "L" -> "l"
    [] c = "N" -> "n"
    [] c = "R" -> "r"
    [] c = "T" -> "t"
    [] c = "U" -> "u"
    [] c = "F" -> "f"
    [] c = "O" -> "o"
    [] c = "P" -> "p"
    [] c = "S" -> "s"
    [] OTHER -> c

\* propertyName.toLowerCase()
ToLowerCase(cs) == [i \in 1..Len(cs) |-> LowerChar(cs[i])]

\* lowerName.includes(sub)
Includes(cs, sub) ==
  \E i \in 0..(Len(cs) - Len(sub)) : SubSeq(cs, i + 1, i + Len(sub)) = sub

TicksPerDay == 2

\* new Date().toISOString() at time t, and its part before the 'T'
IsoDatePart(t) == "day" \o ToString(t \div TicksPerDay)
ToISOString(t) == IsoDatePart(t) \o "T" \o ToString(t % TicksPerDay) \o "Z"

Returned(st, v) == [v |-> v, st |-> st, threw |-> FALSE]
Thrown(st) == [v |-> Undef, st |-> st, threw |-> TRUE]

IsType(property, name) == Get(property, "type") = Str(name)
IsFormat(property, name) == Get(property, "format") = Str(name)

\* mutant: the property name tested ahead of the format
StringExampleNameFirst(property, propertyName, t) ==
  LET lowerName == ToLowerCase(Chars(propertyName))
  IN CASE Includes(lowerName, <<"i", "d">>) -> Str("example-id")
       [] Includes(lowerName, <<"n", "a", "m", "e">>) -> Str("Example Name")
       [] Includes(lowerName, <<"e", "m", "a", "i", "l">>) -> Str("user@example.com")
       [] Includes(lowerName, <<"u", "r", "l">>) -> Str("https://example.com")
       [] Includes(lowerName, <<"t", "o", "k", "e", "n">>) -> Str("example_token_123")
       [] IsFormat(property, "email") -> Str("user@example.com")
       [] IsFormat(property, "date-time") -> Str(ToISOString(t))
       [] IsFormat(property, "date") -> Str(IsoDatePart(t))
       [] IsFormat(property, "uuid") -> Str("123e4567-e89b-12d3-a456-426614174000")
       [] IsFormat(property, "uri") \/ IsFormat(property, "url") -> Str("https://example.com")
       [] OTHER -> Str("example_value")

\* lines 982-1008
StringExample(property, propertyName, t) ==
  LET lowerName == ToLowerCase(Chars(propertyName))
  IN CASE IsFormat(property, "email") -> Str("user@example.com")
       [] IsFormat(property, "date-time") -> Str(ToISOString(t))
       [] IsFormat(property, "date") -> Str(IsoDatePart(t))
       [] IsFormat(property, "uuid") -> Str("123e4567-e89b-12d3-a456-426614174000")
       [] IsFormat(property, "uri") \/ IsFormat(property, "url") -> Str("https://example.com")
       [] Includes(lowerName, <<"i", "d">>) -> Str("example-id")
       [] Includes(lowerName, <<"n", "a", "m", "e">>) -> Str("Example Name")
       [] Includes(lowerName, <<"e", "m", "a", "i", "l">>) -> Str("user@example.com")
       [] Includes(lowerName, <<"u", "r", "l">>) -> Str("https://example.com")
       [] Includes(lowerName, <<"t", "o", "k", "e", "n">>) -> Str("example_token_123")
       [] OTHER -> Str("example_value")

\* lines 1011-1013
NumberExample(property) ==
  IF IsType(property, "integer") /\ IsFormat(property, "int64") THEN Num(1) ELSE Num(10)

IsScalarType(property) ==
  \/ IsType(property, "string")
  \/ IsType(property, "number")
  \/ IsType(property, "integer")
  \/ IsType(property, "boolean")

\* lines 982-1017: the value for a node of type string, number, integer or boolean
ScalarExample(property, propertyName, t) ==
  IF IsType(property, "string") THEN StringExample(property, propertyName, t)
  ELSE IF IsType(property, "boolean") THEN Bool(TRUE)
  ELSE NumberExample(property)

\* mutant: the annotation rules taken with the default ahead of the example
AnnotatedValueDefaultFirst(property) ==
  IF Get(property, "default") # Undef
  THEN [matched |-> TRUE, v |-> Get(property, "default")]
  ELSE IF Get(property, "example") # Undef
  THEN [matched |-> TRUE, v |-> Get(property, "example")]
  ELSE IF Get(property, "enum").kind = "arr" /\ Len(Get(property, "enum").ent) > 0
  THEN [matched |-> TRUE, v |-> Get(property, "enum").ent[1].v]
  ELSE [matched |-> FALSE, v |-> Undef]

\* lines 961-972: the three early returns on example, default and enum
AnnotatedValue(property) ==
  IF Get(property, "example") # Undef
  THEN [matched |-> TRUE, v |-> Get(property, "example")]
  ELSE IF Get(property, "default") # Undef
  THEN [matched |-> TRUE, v |-> Get(property, "default")]
  ELSE IF Get(property, "enum").kind = "arr" /\ Len(Get(property, "enum").ent) > 0
  THEN [matched |-> TRUE, v |-> Get(property, "enum").ent[1].v]
  ELSE [matched |-> FALSE, v |-> Undef]

\* lines 960-1037.  A call deeper than the stack allows throws RangeError;
\* reading a field of null or undefined throws TypeError.
RECURSIVE generateExampleValue(_, _, _, _, _)
RECURSIVE ExampleProperties(_, _, _, _, _, _)
generateExampleValue(st, property, propertyName, api, fuel) ==
  IF fuel = 0 \/ property.kind \in {"null", "undef"} THEN Thrown(st)
  ELSE IF AnnotatedValue(property).matched THEN Returned(st, AnnotatedValue(property).v)
  ELSE
    LET isRef == Truthy(Get(property, "$ref"))
        \* r: what resolveRef returned and the state it left, when it was called
        AfterRef(r) ==
          IF isRef /\ Truthy(r.res)
          THEN generateExampleValue(r.st, r.res, propertyName, api, fuel - 1)
          ELSE IF IsScalarType(property)
               THEN Returned(r.st, ScalarExample(property, propertyName, r.st.t))
          ELSE IF IsType(property, "array")
               THEN IF Truthy(Get(property, "items"))
                    THEN LET item == generateExampleValue(r.st, Get(property, "items"),
                                                          propertyName, api, fuel - 1)
                         IN IF item.threw THEN item
                            ELSE Returned(item.st, Arr(<<item.v>>))
                    ELSE Returned(r.st, Arr(<<Str("example")>>))
          ELSE IF IsType(property, "object") \/ Truthy(Get(property, "properties"))
               THEN IF Truthy(Get(property, "properties"))
                    THEN ExampleProperties(r.st, Get(property, "properties").ent, 1, <<>>,
                                           api, fuel - 1)
                    ELSE Returned(r.st, Obj(<<>>))
          ELSE Returned(r.st, Null)
    IN AfterRef(IF isRef THEN resolveRef(st, Get(property, "$ref").s, api)
                ELSE [res |-> Null, st |-> st])

\* lines 1029-1031: the loop over Object.entries(property.properties)
ExampleProperties(st, ents, i, acc, api, fuel) ==
  IF i > Len(ents) THEN Returned(st, Obj(acc))
  ELSE LET one == generateExampleValue(st, ents[i].v, ents[i].k, api, fuel)
       IN IF one.threw THEN one
          ELSE ExampleProperties(one.st, ents, i + 1, Append(acc, KV(ents[i].k, one.v)),
                                 api, fuel)

(***************************************************************************)
(* The generated code, line by line.  A line is [form, name, value, mark]: *)
(* form "text" for a fixed line, "field" for a live `name: value,`         *)
(* assignment, "commented" for a commented-out one.                        *)
(***************************************************************************)
Line(form, name, value, mark) == [form |-> form, name |-> name, value |-> value, mark |-> mark]
Text(x) == Line("text", "", x, "")

RECURSIVE JSONStringify(_)
RECURSIVE StringifyEntries(_, _, _)
JSONStringify(v) ==
  CASE v.kind = "str" -> "\"" \o v.s \o "\""
    [] v.kind = "num" -> ToString(v.n)
    [] v.kind = "bool" -> IF v.n = 1 THEN "true" ELSE "false"
    [] v.kind = "null" -> "null"
    [] v.kind = "arr" -> "[" \o StringifyEntries(v.ent, 1, FALSE) \o "]"
    [] v.kind = "obj" -> "{" \o StringifyEntries(v.ent, 1, TRUE) \o "}"
    [] OTHER -> "undefined"

StringifyEntries(ents, i, keyed) ==
  IF i > Len(ents) THEN ""
  ELSE (IF i > 1 THEN "," ELSE "")
       \o (IF keyed THEN "\"" \o ents[i].k \o "\":" ELSE "")
       \o JSONStringify(ents[i].v)
       \o StringifyEntries(ents, i + 1, keyed)

\* typeof exampleValue === 'string' ? `'${exampleValue}'` : JSON.stringify(exampleValue)
ValueStr(v) == IF v.kind = "str" THEN "'" \o v.s \o "'" ELSE JSONStringify(v)

Code(lines, st) == [lines |-> lines, st |-> st, threw |-> FALSE]

\* the loop of generatePathParamsCode and of generateQueryParamsCode
RECURSIVE ParamLines(_, _, _, _, _)
ParamLines(st, params, i, acc, api) ==
  IF i > Len(params) THEN Code(acc, st)
  ELSE LET schema == IF Truthy(Get(params[i], "schema")) THEN Get(params[i], "schema")
                     ELSE Obj(<<>>)
           name == Get(params[i], "name").s
           Emit(one) ==
             IF one.threw THEN [lines |-> acc, st |-> one.st, threw |-> TRUE]
             ELSE ParamLines(one.st, params, i + 1,
                             Append(acc, Line("field", name, ValueStr(one.v), "")), api)
       IN Emit(generateExampleValue(st, schema, name, api, MaxStack))

\* lines.push('}'), lines.push(''): the end of a block of assignments
CloseBlock(body) ==
  IF body.threw THEN body ELSE Code(body.lines \o <<Text("}"), Text("")>>, body.st)

\* lines 282-295
generatePathParamsCode(st, pathParams, api) ==
  CloseBlock(ParamLines(st, pathParams, 1,
                        <<Text("// Path parameters"), Text("const pathParams: PathParams = {")>>,
                        api))

\* lines 301-315
generateQueryParamsCode(st, queryParams, api) ==
  CloseBlock(ParamLines(st, queryParams, 1,
                        <<Text("// Query parameters"), Text("const queryParams: QueryParams = {")>>,
                        api))

(***************************************************************************)
(* generateRequestBodyCode.                                                *)
(***************************************************************************)
\* Object.assign(target, source) on the ordered entries
RECURSIVE ObjectAssign(_, _)
ObjectAssign(target, source) ==
  IF source = <<>> THEN target
  ELSE LET e == Head(source)
           at == {i \in 1..Len(target) : target[i].k = e.k}
           put == IF at = {} THEN Append(target, e)
                  ELSE [i \in 1..Len(target) |-> IF i \in at THEN e ELSE target[i]]
       IN ObjectAssign(put, Tail(source))

\* mutant: on a name collision the property collected earlier is kept
CollectPropertiesKeepFirst(allProperties, schema) ==
  IF Has(schema, "properties") /\ Truthy(Get(schema, "properties"))
  THEN ObjectAssign(allProperties,
                    SelectSeq(Get(schema, "properties").ent,
                              LAMBDA e : \A i \in 1..Len(allProperties) :
                                           allProperties[i].k # e.k))
  ELSE allProperties

\* the properties and the required names one schema contributes (lines 370-378, 383-388)
CollectProperties(allProperties, schema) ==
  IF Has(schema, "properties") /\ Truthy(Get(schema, "properties"))
  THEN ObjectAssign(allProperties, Get(schema, "properties").ent)
  ELSE allProperties

CollectRequired(allRequired, schema) ==
  IF Has(schema, "required") /\ Get(schema, "required").kind = "arr"
  THEN allRequired \cup {Get(schema, "required").ent[i].v : i \in 1..Len(Get(schema, "required").ent)}
  ELSE allRequired

\* lines 361-379: the loop over allOf
RECURSIVE AllOfBranches(_, _, _, _, _, _)
AllOfBranches(st, subs, i, allProperties, allRequired, api) ==
  IF i > Len(subs) THEN [props |-> allProperties, req |-> allRequired, st |-> st]
  ELSE LET subSchema == subs[i].v
           Merge(r) ==
             IF ~Truthy(r.res)
             THEN AllOfBranches(r.st, subs, i + 1, allProperties, allRequired, api)
             ELSE AllOfBranches(r.st, subs, i + 1, CollectProperties(allProperties, r.res),
                                CollectRequired(allRequired, r.res), api)
       IN Merge(IF Has(subSchema, "$ref") THEN resolveRef(st, Get(subSchema, "$ref").s, api)
                ELSE [res |-> subSchema, st |-> st])

\* lines 355-388: allProperties and allRequired of the schema the body is built from
FlattenBody(st, resolvedBodySchema, api) ==
  LET Direct(fromAllOf) ==
        [props |-> CollectProperties(fromAllOf.props, resolvedBodySchema),
         req |-> CollectRequired(fromAllOf.req, resolvedBodySchema),
         st |-> fromAllOf.st]
  IN Direct(IF Has(resolvedBodySchema, "allOf") /\ Truthy(Get(resolvedBodySchema, "allOf"))
            THEN AllOfBranches(st, Get(resolvedBodySchema, "allOf").ent, 1, <<>>, {}, api)
            ELSE [props |-> <<>>, req |-> {}, st |-> st])

\* mutant: every property as a live assignment
BodyLineAlwaysLive(propName, valueStr, allRequired) ==
  Line("field", propName, valueStr, "required")

\* lines 392, 397-402: the line of one property
BodyLine(propName, valueStr, allRequired) ==
  IF Str(propName) \in allRequired
  THEN Line("field", propName, valueStr, "required")
  ELSE Line("commented", propName, valueStr, "optional")

\* lines 390-404: one line per flattened property
RECURSIVE BodyFieldLines(_, _, _, _, _, _)
BodyFieldLines(st, ents, i, acc, allRequired, api) ==
  IF i > Len(ents) THEN Code(acc, st)
  ELSE LET propName == ents[i].k
           Emit(one) ==
             IF one.threw THEN [lines |-> acc, st |-> one.st, threw |-> TRUE]
             ELSE BodyFieldLines(one.st, ents, i + 1,
                                 Append(acc, BodyLine(propName, ValueStr(one.v), allRequired)),
                                 allRequired, api)
       IN Emit(generateExampleValue(st, ents[i].v, propName, api, MaxStack))

\* lines 339-348: the schema after the oneOf policy; gone stands for `return ''`
FirstOneOf(st, schema, api) ==
  IF Has(schema, "oneOf") /\ Truthy(Get(schema, "oneOf"))
  THEN LET firstOption == Get(Get(schema, "oneOf"), "0")
       IN IF Truthy(firstOption) /\ Has(firstOption, "$ref")
          THEN LET Option(r) == [schema |-> r.res, st |-> r.st,
                                 gone |-> ~Truthy(r.res) \/ Has(r.res, "$ref")]
               IN Option(resolveRef(st, Get(firstOption, "$ref").s, api))
          ELSE [schema |-> schema, st |-> st, gone |-> FALSE]
  ELSE [schema |-> schema, st |-> st, gone |-> FALSE]

\* lines 350-407: the body code once the schema is settled
BodyCodeOf(st, resolvedBodySchema, api) ==
  LET Fields(flat) ==
        BodyFieldLines(flat.st, flat.props, 1,
                       <<Text("// Request body"), Text("const body: RequestBody = {")>>,
                       flat.req, api)
  IN CloseBlock(Fields(FlattenBody(st, resolvedBodySchema, api)))

\* an empty list of lines stands for the empty string
generateRequestBodyCode(st, requestBody, api) ==
  LET bodySchema == Get(Get(Get(requestBody, "content"), "application/json"), "schema")
  IN IF ~Truthy(bodySchema) THEN Code(<<>>, st)
     ELSE LET Chosen(one) == IF one.gone THEN Code(<<>>, one.st)
                             ELSE BodyCodeOf(one.st, one.schema, api)
              Resolved(r) == IF ~Truthy(r.res) \/ Has(r.res, "$ref") THEN Code(<<>>, r.st)
                             ELSE Chosen(FirstOneOf(r.st, r.res, api))
          IN Resolved(IF Has(bodySchema, "$ref")
                      THEN resolveRef(st, Get(bodySchema, "$ref").s, api)
                      ELSE [res |-> bodySchema, st |-> st])

(***************************************************************************)
(* generateCodeExample: the build (lines 1211-1276) and the cache around   *)
(* it (lines 1200-1209, 1278-1287).                                        *)
(***************************************************************************)
MethodLower(method) ==
  CASE method = "GET" -> "get"
    [] method = "POST" -> "post"
    [] method = "PUT" -> "put"
    [] method = "DELETE" -> "delete"
    [] method = "PATCH" -> "patch"
    [] method = "OPTIONS" -> "options"
    [] method = "HEAD" -> "head"

MethodUpper(method) ==
  CASE method \in {"GET", "get"} -> "GET"
    [] method \in {"POST", "post"} -> "POST"
    [] method \in {"PUT", "put"} -> "PUT"
    [] method \in {"DELETE", "delete"} -> "DELETE"
    [] method \in {"PATCH", "patch"} -> "PATCH"
    [] method \in {"OPTIONS", "options"} -> "OPTIONS"
    [] method \in {"HEAD", "head"} -> "HEAD"

\* operation.parameters?.filter(p => !('$ref' in p) && p.in === where)
ParamsIn(operation, where) ==
  LET ps == Get(operation, "parameters").ent
  IN SelectSeq([i \in 1..Len(ps) |-> ps[i].v],
               LAMBDA p : ~Has(p, "$ref") /\ Get(p, "in") = Str(where))

\* lines 413-442
generateRequestCode(path, method, pathParams, queryParams, requestBody) ==
  <<Line("call", path, IF Len(pathParams) > 0 THEN "template" ELSE "literal", ""),
    Line("method", "", MethodUpper(method), "")>>
  \o (IF Len(queryParams) > 0 THEN <<Text("  query: queryParams,")>> ELSE <<>>)
  \o (IF Truthy(requestBody) THEN <<Text("  body,")>> ELSE <<>>)
  \o <<Text("})")>>

\* lines 1234-1273: the usage code of a fresh example
BuildUsage(st, api, path, method, operation) ==
  LET pathParams == ParamsIn(operation, "path")
      queryParams == ParamsIn(operation, "query")
      declared == Get(operation, "requestBody")
      \* rb: the request body, p, q, b: the path, query and body code
      Assemble(rb, p, q, b) ==
        IF b.threw THEN [lines |-> <<>>, st |-> b.st, threw |-> TRUE]
        ELSE Code(p.lines \o q.lines \o b.lines
                  \o generateRequestCode(path, method, pathParams, queryParams, rb.res),
                  b.st)
      WithBody(rb, p, q) ==
        Assemble(rb, p, q,
                 IF q.threw THEN q
                 ELSE IF Truthy(rb.res) THEN generateRequestBodyCode(q.st, rb.res, api)
                 ELSE Code(<<>>, q.st))
      WithQuery(rb, p) ==
        WithBody(rb, p,
                 IF p.threw THEN p
                 ELSE IF Len(queryParams) > 0
                      THEN generateQueryParamsCode(p.st, queryParams, api)
                 ELSE Code(<<>>, p.st))
      WithPath(rb) ==
        WithQuery(rb, IF Len(pathParams) > 0 THEN generatePathParamsCode(rb.st, pathParams, api)
                      ELSE Code(<<>>, rb.st))
  IN WithPath(IF Truthy(declared) /\ Has(declared, "$ref")
              THEN resolveRef(st, Get(declared, "$ref").s, api)
              ELSE [res |-> declared, st |-> st])

\* `${apiName}:${path}:${method}`
CacheKey(apiName, path, method) == apiName \o ":" \o path \o ":" \o method

\* the Map exampleCache as the list of its entries in insertion order
MapHas(m, key) == \E i \in 1..Len(m) : m[i].key = key
MapGet(m, key) == m[CHOOSE i \in 1..Len(m) : m[i].key = key]
MapDelete(m, key) == SelectSeq(m, LAMBDA e : e.key # key)
\* mutant: a new key goes to the front of the Map
MapSetFront(m, key, timestamp, example) ==
  LET e == [key |-> key, timestamp |-> timestamp, example |-> example]
  IN IF MapHas(m, key) THEN [i \in 1..Len(m) |-> IF m[i].key = key THEN e ELSE m[i]]
     ELSE <<e>> \o m

MapSet(m, key, timestamp, example) ==
  LET e == [key |-> key, timestamp |-> timestamp, example |-> example]
  IN IF MapHas(m, key) THEN [i \in 1..Len(m) |-> IF m[i].key = key THEN e ELSE m[i]]
     ELSE Append(m, e)

NoExample == [id |-> 0, usage |-> <<>>]

\* mutant: evicts only once the cache is over its capacity
EvictWhenOver(m) ==
  IF Len(m) > exampleSize
  THEN IF Len(m) > 0 /\ m[1].key # "" THEN MapDelete(m, m[1].key) ELSE m
  ELSE m

\* lines 1278-1283
EvictFirst(m) ==
  IF Len(m) >= exampleSize
  THEN IF Len(m) > 0 /\ m[1].key # "" THEN MapDelete(m, m[1].key) ELSE m
  ELSE m

\* mutant: the comparison with the TTL turned around
IsFreshReversed(m, key, t) == MapHas(m, key) /\ t - MapGet(m, key).timestamp > exampleTTL

\* mutant: an entry of age exactly exampleTTL still counts as fresh
IsFreshInclusive(m, key, t) == MapHas(m, key) /\ t - MapGet(m, key).timestamp <= exampleTTL

\* lines 1202-1204: is the request served from the cache
IsFresh(m, key, t) == MapHas(m, key) /\ t - MapGet(m, key).timestamp < exampleTTL
\* mutant: a hit moves the entry to the end of the Map with a new timestamp
generateCodeExampleTouchOnHit(cache, nextId, t, d, cacheKey, built) ==
  IF IsFresh(cache, cacheKey, t)
  THEN [outcome |-> "hit", example |-> MapGet(cache, cacheKey).example,
        cache |-> MapSet(MapDelete(cache, cacheKey), cacheKey, t,
                         MapGet(cache, cacheKey).example),
        afterCheck |-> cache, beforeSet |-> cache, t |-> t]
  ELSE IF built.threw
  THEN [outcome |-> "threw", example |-> NoExample, cache |-> MapDelete(cache, cacheKey),
        afterCheck |-> MapDelete(cache, cacheKey), beforeSet |-> MapDelete(cache, cacheKey),
        t |-> t]
  ELSE [outcome |-> "built", example |-> [id |-> nextId, usage |-> built.lines],
        cache |-> MapSet(EvictFirst(MapDelete(cache, cacheKey)), cacheKey, t + d,
                         [id |-> nextId, usage |-> built.lines]),
        afterCheck |-> MapDelete(cache, cacheKey),
        beforeSet |-> EvictFirst(MapDelete(cache, cacheKey)), t |-> t + d]

\* mutant: the stale entry is left in the Map when the build starts
generateCodeExampleKeepsStale(cache, nextId, t, d, cacheKey, built) ==
  IF IsFresh(cache, cacheKey, t)
  THEN [outcome |-> "hit", example |-> MapGet(cache, cacheKey).example,
        cache |-> cache, afterCheck |-> cache, beforeSet |-> cache, t |-> t]
  ELSE IF built.threw
  THEN [outcome |-> "threw", example |-> NoExample,
        cache |-> cache, afterCheck |-> cache, beforeSet |-> cache, t |-> t]
  ELSE [outcome |-> "built", example |-> [id |-> nextId, usage |-> built.lines],
        cache |-> MapSet(EvictFirst(cache), cacheKey, t + d,
                         [id |-> nextId, usage |-> built.lines]),
        afterCheck |-> cache, beforeSet |-> EvictFirst(cache), t |-> t + d]

\* mutant: a failed build empties the cache
generateCodeExampleClearsOnThrow(cache, nextId, t, d, cacheKey, built) ==
  [outcome |-> IF IsFresh(cache, cacheKey, t) THEN "hit"
               ELSE IF built.threw THEN "threw" ELSE "built",
   example |-> IF IsFresh(cache, cacheKey, t) THEN MapGet(cache, cacheKey).example
               ELSE IF built.threw THEN NoExample
               ELSE [id |-> nextId, usage |-> built.lines],
   cache |-> IF IsFresh(cache, cacheKey, t) THEN cache
             ELSE IF built.threw THEN <<>>
             ELSE MapSet(EvictFirst(MapDelete(cache, cacheKey)), cacheKey, t + d,
                         [id |-> nextId, usage |-> built.lines]),
   afterCheck |-> IF IsFresh(cache, cacheKey, t) THEN cache ELSE MapDelete(cache, cacheKey),
   beforeSet |-> IF IsFresh(cache, cacheKey, t) THEN cache
                 ELSE IF built.threw THEN MapDelete(cache, cacheKey)
                 ELSE EvictFirst(MapDelete(cache, cacheKey)),
   t |-> IF IsFresh(cache, cacheKey, t) \/ built.threw THEN t ELSE t + d]

\* The whole of generateCodeExample, called at time t; built is the build of
\* lines 1211-1276 and d the time that passes before Date.now() is read again
\* at line 1285.  outcome: "hit", "built" or "threw".
generateCodeExample(cache, nextId, t, d, cacheKey, built) ==
  LET afterCheck == IF MapHas(cache, cacheKey) THEN MapDelete(cache, cacheKey) ELSE cache
      example == [id |-> nextId, usage |-> built.lines]
      beforeSet == EvictFirst(afterCheck)
  IN IF IsFresh(cache, cacheKey, t)
     THEN [outcome |-> "hit", example |-> MapGet(cache, cacheKey).example,
           cache |-> cache, afterCheck |-> cache, beforeSet |-> cache, t |-> t]
     ELSE IF built.threw
     THEN [outcome |-> "threw", example |-> NoExample,
           cache |-> afterCheck, afterCheck |-> afterCheck, beforeSet |-> afterCheck, t |-> t]
     ELSE [outcome |-> "built", example |-> example,
           cache |-> MapSet(beforeSet, cacheKey, t + d, example),
           afterCheck |-> afterCheck, beforeSet |-> beforeSet, t |-> t + d]

(***************************************************************************)
(* The server.  now is the clock Date.now() reads, builds counts the       *)
(* examples built so far (an example's id is its identity), and last       *)
(* records the latest request: its input, its outcome, the resolveRef      *)
(* calls it made and the example cache before it, after its cache check    *)
(* and just before its insert.                                             *)
(***************************************************************************)
Requests ==
  {<<"shop", "/users", "POST">>, <<"shop", "/users", "GET">>,
   <<"shop", "/users/{userId}", "GET">>, <<"shop", "/nodes", "POST">>,
   <<"blog", "/users", "POST">>,
   <<"blog", "/nodes", "POST">>, <<"shop", "/users", "DELETE">>}

NoRefs == [r \in AllRefs |-> NoEntry]

Idle ==
  [tool |-> "none", api |-> "", path |-> "", method |-> "", key |-> "", at |-> 0,
   outcome |-> "", error |-> "", example |-> NoExample, calls |-> <<>>,
   cacheBefore |-> <<>>, afterCheck |-> <<>>, beforeSet |-> <<>>,
   property |-> Undef, propertyName |-> "", value |-> Undef,
   limit |-> [num |-> 0, den |-> 1]]

Init ==
  /\ refCache = NoRefs
  /\ exampleCache = <<>>
  /\ now = 0
  /\ builds = 0
  /\ last = Idle
  /\ pending = <<>>

Running == last.tool # "cleanup"

\* what last keeps of a cache: the keys in insertion order, each with its
\* timestamp and the identity of its example
View(m) == [i \in 1..Len(m) |-> [key |-> m[i].key, timestamp |-> m[i].timestamp,
                                  id |-> m[i].example.id]]

Request(tool, api, path, method) ==
  [Idle EXCEPT !.tool = tool, !.api = api, !.path = path, !.method = method,
               !.at = now, !.cacheBefore = View(exampleCache)]

\* mutant: the error without the path
PathNotFoundUnnamed(path) == "Path not found"

\* `Path not found: ${path}` (lines 674, 742)
PathNotFound(path) == "Path not found: " \o path

\* `Method ${method} not found for ${path}` (lines 682, 747)
MethodNotFound(method, path) == "Method " \o method \o " not found for " \o path

\* join(', ')
RECURSIVE JoinComma(_)
JoinComma(words) ==
  IF words = <<>> THEN ""
  ELSE IF Len(words) = 1 THEN words[1]
  ELSE words[1] \o ", " \o JoinComma(Tail(words))

\* lines 679-681: the methods the path item has, in upper case
AvailableMethods(pathItem) ==
  LET keys == [i \in 1..Len(pathItem.ent) |-> pathItem.ent[i].k]
      http == SelectSeq(keys, LAMBDA m : m \in {"get", "post", "put", "delete", "patch",
                                                "options", "head"})
  IN JoinComma([i \in 1..Len(http) |-> MethodUpper(http[i])])

\* lines 718-719: the first ten schema names of the document
AvailableSchemas(spec) ==
  LET schemas == Get(Get(spec, "components"), "schemas")
      keys == [i \in 1..Len(schemas.ent) |-> schemas.ent[i].k]
  IN JoinComma(SubSeq(keys, 1, IF Len(keys) < 10 THEN Len(keys) ELSE 10))

\* `Schema "${schema_name}" not found. Available: ...` (line 719)
SchemaNotFound(schema_name, spec) ==
  "Schema \"" \o schema_name \o "\" not found. Available: " \o AvailableSchemas(spec)

\* what get_endpoint_details and generate_code_example share: the lookup of
\* the path and of the operation, then generateCodeExample
EndpointTool(tool, api_name, path, method, methodError) ==
  LET pathItem == Get(Get(specs[api_name], "paths"), path)
      operation == Get(pathItem, MethodLower(method))
      cacheKey == CacheKey(api_name, path, method)
      hit == IsFresh(exampleCache, cacheKey, now)
      start == [cache |-> refCache, log |-> <<>>, t |-> now]
      req == Request(tool, api_name, path, method)
  IN /\ Running
     /\ IF ~Truthy(pathItem)
        THEN /\ last' = [req EXCEPT !.outcome = "error", !.error = PathNotFound(path)]
             /\ UNCHANGED <<refCache, exampleCache, now, builds>>
        ELSE IF ~Truthy(operation)
        THEN /\ last' = [req EXCEPT !.outcome = "error", !.error = methodError]
             /\ UNCHANGED <<refCache, exampleCache, now, builds>>
        ELSE \E built \in {IF hit THEN Code(<<>>, start)
                           ELSE BuildUsage(start, api_name, path, method, operation)} :
             \E d \in 0..(IF hit \/ built.threw THEN 0 ELSE 1) :
             \E r \in {generateCodeExample(exampleCache, builds + 1, now, d, cacheKey, built)} :
               /\ r.outcome = "built" => now + d <= MaxTime
               /\ last' = [req EXCEPT !.key = cacheKey,
                                      !.outcome = r.outcome, !.example = r.example,
                                      !.calls = built.st.log, !.afterCheck = View(r.afterCheck),
                                      !.beforeSet = View(r.beforeSet)]
               /\ exampleCache' = r.cache
               /\ refCache' = built.st.cache
               /\ now' = r.t
               /\ builds' = IF r.outcome = "built" THEN builds + 1 ELSE builds

\* lines 737-770: the generate_code_example tool
generate_code_example(api_name, path, method) ==
  EndpointTool("generate_code_example", api_name, path, method, MethodNotFound(method, path))

\* lines 669-702: the get_endpoint_details tool
get_endpoint_details(api_name, path, method) ==
  EndpointTool("get_endpoint_details", api_name, path, method,
               MethodNotFound(method, path) \o ". Available: "
               \o AvailableMethods(Get(Get(specs[api_name], "paths"), path)))

\* lines 713-725: the get_schema_details tool
get_schema_details(api_name, schema_name) ==
  LET schema == Get(Get(Get(specs[api_name], "components"), "schemas"), schema_name)
      req == [Request("get_schema_details", api_name, "", "") EXCEPT
                !.propertyName = schema_name]
  IN /\ Running
     /\ last' = IF ~Truthy(schema)
                THEN [req EXCEPT !.outcome = "error",
                                 !.error = SchemaNotFound(schema_name, specs[api_name])]
                ELSE [req EXCEPT !.outcome = "returned", !.value = schema]
     /\ UNCHANGED <<refCache, exampleCache, now, builds>>

\* the requests made with get_endpoint_details and with get_schema_details
DetailRequests ==
  {<<"shop", "/users/{userId}", "GET">>, <<"blog", "/nodes", "POST">>,
   <<"shop", "/users", "DELETE">>}

SchemaRequests == {<<"shop", "Role">>, <<"shop", "Missing">>, <<"blog", "Role">>}

\* time passes between two requests
Tick ==
  /\ Running
  /\ now < MaxTime
  /\ now' = now + 1
  /\ last' = [Idle EXCEPT !.tool = "tick", !.at = now, !.cacheBefore = View(exampleCache)]
  /\ UNCHANGED <<refCache, exampleCache, builds>>

\* lines 1395-1406, called on shutdown only
cleanup ==
  /\ Running
  /\ refCache' = NoRefs
  /\ exampleCache' = <<>>
  /\ last' = [Idle EXCEPT !.tool = "cleanup", !.at = now, !.cacheBefore = View(exampleCache)]
  /\ UNCHANGED <<now, builds>>

Next ==
  \/ \E req \in Requests :
       /\ generate_code_example(req[1], req[2], req[3])
       /\ builds' <= MaxBuilds
       /\ UNCHANGED pending
  \/ \E req \in DetailRequests :
       /\ get_endpoint_details(req[1], req[2], req[3])
       /\ builds' <= MaxBuilds
       /\ UNCHANGED pending
  \/ \E req \in SchemaRequests : get_schema_details(req[1], req[2]) /\ UNCHANGED pending
  \/ Tick /\ UNCHANGED pending
  \/ cleanup /\ UNCHANGED pending

Spec == Init /\ [][Next]_vars

\* the same tools serving the geo documents
GeoRequests ==
  {<<"geo", "/v1:/places", "GET">>, <<"geo:/v1", "/places", "GET">>,
   <<"geo", "/upload", "POST">>, <<"geo", "/import", "POST">>,
   <<"shop", "/users", "POST">>}

NextGeo ==
  \/ \E req \in GeoRequests :
       /\ generate_code_example(req[1], req[2], req[3])
       /\ builds' <= MaxBuilds
       /\ UNCHANGED pending
  \/ \E req \in GeoRequests :
       /\ get_endpoint_details(req[1], req[2], req[3])
       /\ builds' <= MaxBuilds
       /\ UNCHANGED pending
  \/ Tick /\ UNCHANGED pending

SpecGeo == Init /\ [][NextGeo]_vars

(***************************************************************************)
(* Invocations in flight.  The tool handlers (lines 669-685, 737-750) and  *)
(* generateCodeExample (1193-1288) contain no await, so a handler that has *)
(* started runs to its return before any other callback runs: an           *)
(* invocation is either waiting to be dispatched or done.  pending lists   *)
(* the invocations in the order they were received; each keeps the order   *)
(* in which it was served (0 while it waits), the time it was served at,   *)
(* its outcome and the identity of the example it returned.                *)
(***************************************************************************)
PendingRequests ==
  {<<"shop", "/users", "POST">>, <<"shop", "/users", "GET">>,
   <<"shop", "/users/{userId}", "GET">>}

Served == Cardinality({i \in 1..Len(pending) : pending[i].served # 0})

\* a tools/call message for generate_code_example arrives
Receive(req) ==
  /\ Running
  /\ Len(pending) < MaxPending
  /\ pending' = Append(pending, [api |-> req[1], path |-> req[2], method |-> req[3],
                                 key |-> CacheKey(req[1], req[2], req[3]),
                                 served |-> 0, at |-> 0, outcome |-> "", id |-> 0])
  /\ UNCHANGED <<refCache, exampleCache, now, builds, last>>

\* the handler of a waiting invocation runs, from its first line to its return
Dispatch(i) ==
  /\ pending[i].served = 0
  /\ generate_code_example(pending[i].api, pending[i].path, pending[i].method)
  /\ pending' = [pending EXCEPT ![i] = [@ EXCEPT !.served = Served + 1, !.at = now,
                                                 !.outcome = last'.outcome,
                                                 !.id = last'.example.id]]

NextPending ==
  \/ \E req \in PendingRequests : Receive(req)
  \/ \E i \in 1..Len(pending) : Dispatch(i)
  \/ Tick /\ UNCHANGED pending

SpecPending == Init /\ [][NextPending]_vars

(***************************************************************************)
(* generateExampleValue on its own: a family of schema nodes, every        *)
(* combination of example, default, enum, $ref, type and items, each       *)
(* synthesized against the shop document with the memo the earlier         *)
(* applications left.                                                      *)
(***************************************************************************)
Field(k, v) == IF v = Undef THEN <<>> ELSE <<KV(k, v)>>

SchemaNode(example, default, enum, ref, type, items) ==
  Obj(Field("example", example) \o Field("default", default) \o Field("enum", enum)
      \o Field("$ref", ref) \o Field("type", type) \o Field("items", items))

Examples == {Undef, Bool(FALSE)}
Defaults == {Undef, Num(0)}
Enums == {Undef, Arr(<<Str("first"), Str("second")>>)}
RefFields == {Undef, Str(RefUser), Str(RefMissing)}
Types == {Undef, Str("string"), Str("array")}

SchemaNodes ==
  {SchemaNode(e, d, n, r, ty, Undef) :
     e \in Examples, d \in Defaults, n \in Enums, r \in RefFields, ty \in Types}
  \cup {SchemaNode(Undef, Undef, Undef, r, Str("array"), Obj(<<KV("type", Str("integer"))>>)) :
          r \in RefFields}
  \cup {SchemaNode(Undef, Undef, Arr(<<>>), r, ty, Undef) :
          r \in RefFields, ty \in {Undef, Str("string")}}
  \cup {Ref(RefNode), ShopList, Ref(RefLoop), Ref(RefExternal), Ref(RefThroughString),
        Ref(RefNever),
        Obj(<<KV("type", Str("object"))>>),
        Obj(<<KV("type", Str("file"))>>),
        Obj(<<KV("properties", Obj(<<KV("id", Obj(<<KV("type", Str("boolean"))>>))>>))>>)}

\* nodes of type number and integer, with and without a format
NumberNodes ==
  {Obj(<<KV("type", Str(ty))>> \o Field("format", f)) :
     ty \in {"number", "integer"}, f \in {Undef, Str("int64"), Str("int32")}}

\* nodes of type string: no format, each recognised format, an unrecognised one
StringFormats ==
  {Undef, Str("email"), Str("date-time"), Str("date"), Str("uuid"), Str("uri"), Str("url"),
   Str("password")}

StringNodes == {Obj(<<KV("type", Str("string"))>> \o Field("format", f)) : f \in StringFormats}

PropertyNames ==
  {"q", "userId", "fullName", "Email", "emailId", "tokenUrl", "authToken", "homeURL", "video",
   "nameToken"}

\* the applications made: every node under the name q, the string nodes
\* under every name
ValueInputs ==
  ((SchemaNodes \cup NumberNodes) \X {"q"}) \cup (StringNodes \X PropertyNames)

ApplyExampleValue(property, propertyName) ==
  \E one \in {generateExampleValue([cache |-> refCache, log |-> <<>>, t |-> now],
                                   property, propertyName, "shop", MaxStack)} :
    /\ refCache' = one.st.cache
    /\ last' = [Idle EXCEPT !.tool = "generateExampleValue", !.api = "shop", !.at = now,
                            !.property = property, !.propertyName = propertyName,
                            !.outcome = IF one.threw THEN "threw" ELSE "returned",
                            !.value = one.v, !.calls = one.st.log]
    /\ UNCHANGED <<exampleCache, now, builds, pending>>

NextValue ==
  \E input \in ValueInputs : ApplyExampleValue(input[1], input[2])

SpecValue == Init /\ [][NextValue]_vars

(***************************************************************************)
(* generateRequestBodyCode on its own: request bodies with direct          *)
(* properties, with oneOf and with allOf, each generated against the shop  *)
(* document with the memo the earlier applications left.                   *)
(***************************************************************************)
InlineCat ==
  Obj(<<KV("required", Arr(<<Str("name")>>)),
        KV("properties", Obj(<<KV("name", Obj(<<KV("type", Str("string"))>>))>>))>>)

InlineKind ==
  Obj(<<KV("required", Arr(<<Str("note")>>)),
        KV("properties", Obj(<<KV("kind", Obj(<<KV("type", Str("boolean"))>>))>>))>>)

OwnId == Obj(<<KV("id", Obj(<<KV("type", Str("integer"))>>))>>)

BodySchemas ==
  {Ref(RefUser), Ref(RefMissing), Ref(RefLoop), Ref(RefAlias), Ref(RefNode), Undef,
   Obj(<<KV("type", Str("object"))>>),
   Obj(<<KV("oneOf", Arr(<<InlineCat, Ref(RefDog)>>))>>),
   Obj(<<KV("oneOf", Arr(<<InlineCat, Ref(RefDog)>>)), KV("properties", OwnId)>>),
   Obj(<<KV("oneOf", Arr(<<Ref(RefCat), Ref(RefDog)>>))>>),
   Obj(<<KV("oneOf", Arr(<<Ref(RefDog), InlineCat>>)), KV("properties", OwnId)>>),
   Obj(<<KV("oneOf", Arr(<<Ref(RefMissing), Ref(RefCat)>>))>>),
   Obj(<<KV("allOf", Arr(<<Ref(RefBase), Ref(RefExtra)>>))>>),
   Obj(<<KV("allOf", Arr(<<Ref(RefExtra), Ref(RefBase)>>))>>),
   Obj(<<KV("allOf", Arr(<<Ref(RefMissing), InlineKind, Ref(RefBase)>>)),
         KV("properties", OwnId), KV("required", Arr(<<Str("zip")>>))>>),
   Obj(<<KV("allOf", Arr(<<Ref(RefBase), InlineKind>>)), KV("required", Arr(<<Str("kind")>>))>>)}

ApplyRequestBodyCode(bodySchema) ==
  \E one \in {generateRequestBodyCode([cache |-> refCache, log |-> <<>>, t |-> now],
                                      JsonBody(bodySchema), "shop")} :
    /\ refCache' = one.st.cache
    /\ last' = [Idle EXCEPT !.tool = "generateRequestBodyCode", !.api = "shop", !.at = now,
                            !.property = bodySchema,
                            !.outcome = IF one.threw THEN "threw" ELSE "returned",
                            !.example = [id |-> 0, usage |-> one.lines],
                            !.calls = one.st.log]
    /\ UNCHANGED <<exampleCache, now, builds, pending>>

NextBody == \E bodySchema \in BodySchemas : ApplyRequestBodyCode(bodySchema)

SpecBody == Init /\ [][NextBody]_vars

(***************************************************************************)
(* generateResponseHandlingCode on its own.  The code reads two things it  *)
(* does not compute: whether the API has a types.d.ts (getTypesFilePath)   *)
(* and the response structure parseResponseStructure reads from that file. *)
(* Both are inputs here: the structure is null or an object with isUnion   *)
(* and variants, a variant has its property names and isArrayProperty.     *)
(***************************************************************************)
Variant(properties, isArrayProperty) ==
  Obj(<<KV("properties", Arr([i \in 1..Len(properties) |-> Str(properties[i])])),
        KV("isArrayProperty", Bool(isArrayProperty))>>)

ResponseStructure(isUnion, variants) ==
  Obj(<<KV("isUnion", Bool(isUnion)), KV("variants", Arr(variants))>>)

\* variant.properties as a list of names, variants as a list of variants
Properties(variant) ==
  [i \in 1..Len(Get(variant, "properties").ent) |-> Get(variant, "properties").ent[i].v.s]
VariantsOf(responseStructure) ==
  [i \in 1..Len(Get(responseStructure, "variants").ent) |->
     Get(responseStructure, "variants").ent[i].v]

\* line 496, the console.log of the template literal "Item ${idx + 1} ID:"
\* and of item.id, indented by four spaces
ItemIdLine == Line("template", "Item ${idx + 1} ID:", "item.id", "    ")

\* mutant: every branch opens with if
BranchLinesAlwaysIf(variant, index) ==
  LET propName == Properties(variant)[1]
  IN IF propName = "" THEN <<>>
     ELSE <<Text("if ('" \o propName \o "' in response) {")>>
          \o (IF Truthy(Get(variant, "isArrayProperty"))
              THEN <<Text("  console.log('" \o propName \o " created:', response."
                          \o propName \o ".length)"),
                     Text("  response." \o propName \o ".forEach((item, idx) => {"),
                     ItemIdLine,
                     Text("  })")>>
              ELSE <<Text("  console.log('" \o propName \o " created:', response."
                          \o propName \o ")"),
                     Text("  console.log('ID:', response." \o propName \o ".id)")>>)
          \o <<Text("}")>>

\* lines 484-506: the branch of one variant of several, index counted from 0
BranchLines(variant, index) ==
  LET propName == Properties(variant)[1]
      condition == IF index = 0 THEN "if" ELSE "else if"
  IN IF propName = "" THEN <<>>
     ELSE <<Text(condition \o " ('" \o propName \o "' in response) {")>>
          \o (IF Truthy(Get(variant, "isArrayProperty"))
              THEN <<Text("  console.log('" \o propName \o " created:', response."
                          \o propName \o ".length)"),
                     Text("  response." \o propName \o ".forEach((item, idx) => {"),
                     ItemIdLine,
                     Text("  })")>>
              ELSE <<Text("  console.log('" \o propName \o " created:', response."
                          \o propName \o ")"),
                     Text("  console.log('ID:', response." \o propName \o ".id)")>>)
          \o <<Text("}")>>

\* variants.forEach(...) of line 484, from the variant at position i
RECURSIVE Branches(_, _)
Branches(variants, i) ==
  IF i > Len(variants) THEN <<>>
  ELSE BranchLines(variants[i], i - 1) \o Branches(variants, i + 1)

\* lines 508-525: a union with one variant that has properties
SingleVariantLines(variant) ==
  LET propName == Properties(variant)[1]
  IN IF propName = "" THEN <<>>
     ELSE IF Truthy(Get(variant, "isArrayProperty"))
     THEN <<Text("response." \o propName \o ".forEach(item => console.log(item.id))")>>
     ELSE <<Text("console.log('" \o propName \o ":', response." \o propName \o ")")>>

\* lines 527-550: a response that is not a union
NonUnionLines(variant) ==
  IF Properties(variant) = <<>> THEN <<>>
  ELSE LET propName == Properties(variant)[1]
       IN IF propName = "" THEN <<>>
          ELSE <<Text(""), Text("// Access response data"),
                 IF Truthy(Get(variant, "isArrayProperty"))
                 THEN Text("response." \o propName \o ".forEach(item => console.log(item))")
                 ELSE Text("console.log(response." \o propName \o ")")>>

\* lines 463-553, given what getTypesFilePath and parseResponseStructure return
generateResponseHandlingCode(typesPath, responseStructure) ==
  IF ~Truthy(typesPath) THEN <<>>
  ELSE IF ~Truthy(responseStructure) THEN <<>>
  ELSE LET all == VariantsOf(responseStructure)
           variants == SelectSeq(all, LAMBDA v : Len(Properties(v)) > 0)
       IN IF Truthy(Get(responseStructure, "isUnion")) /\ Len(all) > 0
          THEN <<Text(""), Text("// Handle response based on structure")>>
               \o (IF Len(variants) > 1 THEN Branches(variants, 1)
                   ELSE IF Len(variants) = 1 THEN SingleVariantLines(variants[1])
                   ELSE <<>>)
          ELSE IF Len(all) = 1 THEN NonUnionLines(all[1])
          ELSE <<>>

\* the variants of the structures: no property, one property, two properties
MaxVariants == 3
PropertyLists == {<<>>, <<"droplet">>, <<"droplets", "links">>, <<"action">>}
Variants == {Variant(properties, isArrayProperty) :
               properties \in PropertyLists, isArrayProperty \in BOOLEAN}
VariantLists == UNION {[1..n -> Variants] : n \in 0..MaxVariants}
ResponseStructures ==
  {Null} \cup {ResponseStructure(isUnion, variants) :
                 isUnion \in BOOLEAN, variants \in VariantLists}
TypesPaths == {Null, Str("openapi-specs/shop/types.d.ts")}

\* the function reads no state of the server: the file system's answer and
\* the parser's are drawn in the initial state, and the one step applies it
InitResponse ==
  /\ refCache = NoRefs
  /\ exampleCache = <<>>
  /\ now = 0
  /\ builds = 0
  /\ pending = <<>>
  /\ \E typesPath \in TypesPaths, responseStructure \in ResponseStructures :
       last = [Idle EXCEPT !.api = "shop", !.property = responseStructure,
                           !.value = typesPath]

ApplyResponseHandlingCode(typesPath, responseStructure) ==
  /\ last.tool = "none"
  /\ last' = [last EXCEPT !.tool = "generateResponseHandlingCode", !.at = now,
                          !.outcome = "returned",
                          !.example = [id |-> 0, usage |->
                            generateResponseHandlingCode(typesPath, responseStructure)]]
  /\ UNCHANGED <<refCache, exampleCache, now, builds, pending>>

NextResponse == ApplyResponseHandlingCode(last.value, last.property)

SpecResponse == InitResponse /\ [][NextResponse]_vars

(***************************************************************************)
(* search_endpoints.  limit is any number z.number().min(1).max(100)       *)
(* accepts, an integer or not: it is kept as a fraction num/den.  query is *)
(* a string or undefined, method one of the seven names or undefined.      *)
(***************************************************************************)
\* lines 631-638: the key is a method, and matchesQuery && matchesMethod;
\* s?.toLowerCase().includes(query.toLowerCase()) is undefined, so false, for
\* a summary or operationId that is absent
MatchesSearch(path, m, op, query, method) ==
  LET LowerIncludes(s) ==
        s.kind = "str" /\ Includes(ToLowerCase(Chars(s.s)), ToLowerCase(Chars(query.s)))
  IN /\ m \in {"get", "post", "put", "delete", "patch", "options", "head"}
     /\ \/ ~Truthy(query)
        \/ LowerIncludes(Str(path))
        \/ LowerIncludes(Get(op, "summary"))
        \/ LowerIncludes(Get(op, "operationId"))
     /\ (~Truthy(method) \/ Str(MethodUpper(m)) = method)

\* lines 623-655: the two loops, at entry e of path p
RECURSIVE SearchPaths(_, _, _, _, _, _, _)
SearchPaths(paths, p, e, query, method, limit, results) ==
  IF p > Len(paths.ent) \/ Len(results) * limit.den >= limit.num THEN results
  ELSE IF e > Len(paths.ent[p].v.ent)
  THEN SearchPaths(paths, p + 1, 1, query, method, limit, results)
  ELSE LET path == paths.ent[p].k
           m == paths.ent[p].v.ent[e].k
           op == paths.ent[p].v.ent[e].v
           found == Obj(<<KV("path", Str(path)), KV("method", Str(MethodUpper(m)))>>
                        \o Field("operationId", Get(op, "operationId"))
                        \o Field("summary", Get(op, "summary"))
                        \o Field("description", Get(op, "description"))
                        \o <<KV("tags", IF Truthy(Get(op, "tags")) THEN Get(op, "tags")
                                        ELSE Arr(<<>>))>>)
       IN SearchPaths(paths, p, e + 1, query, method, limit,
                      IF MatchesSearch(path, m, op, query, method)
                      THEN Append(results, found) ELSE results)

\* lines 618-657
search_endpoints(api_name, query, method, limit) ==
  LET paths == Get(specs[api_name], "paths")
  IN SearchPaths(IF Truthy(paths) THEN paths ELSE Obj(<<>>), 1, 1, query, method, limit, <<>>)

\* the tool reads only the loaded documents: its arguments are drawn in the
\* initial state, and the one step answers the call
InitSearch ==
  /\ refCache = NoRefs
  /\ exampleCache = <<>>
  /\ now = 0
  /\ builds = 0
  /\ pending = <<>>
  /\ \E query \in {Undef, Str(""), Str("pet"), Str("PET"), Str("list"), Str("owner"),
                    Str("zzz")},
        method \in {Undef, Str("GET"), Str("POST"), Str("DELETE"), Str("PUT")},
        limit \in {[num |-> 1, den |-> 1], [num |-> 3, den |-> 2], [num |-> 2, den |-> 1],
                   [num |-> 5, den |-> 2], [num |-> 20, den |-> 1]} :
       last = [Idle EXCEPT !.api = "pets", !.property = query, !.value = method,
                           !.limit = limit]

ApplySearch(query, method, limit) ==
  /\ last.tool = "none"
  /\ last' = [last EXCEPT !.tool = "search_endpoints", !.outcome = "returned",
                          !.calls = search_endpoints(last.api, query, method, limit)]
  /\ UNCHANGED <<refCache, exampleCache, now, builds, pending>>

NextSearch == ApplySearch(last.property, last.value, last.limit)

SpecSearch == InitSearch /\ [][NextSearch]_vars

(***************************************************************************)
(* analyzeResponseStructure on its own.  The result is null or an object   *)
(* with statusCode, schema, wrapperKeys, primaryResource, importantFields, *)
(* isArray and hasActions.                                                 *)
(***************************************************************************)
\* mutant: 201 is preferred to 200
SuccessResponseCreatedFirst(responses) ==
  IF Truthy(Get(responses, "201")) THEN Get(responses, "201")
  ELSE IF Truthy(Get(responses, "200")) THEN Get(responses, "200")
  ELSE IF Truthy(Get(responses, "202")) THEN Get(responses, "202")
  ELSE Get(responses, "204")

\* line 1091: responses['200'] || responses['201'] || responses['202'] ||
\* responses['204'].  The loop of lines 1093-1101 runs only when all four are
\* falsy and then finds none of them, so it changes nothing.
SuccessResponse(responses) ==
  IF Truthy(Get(responses, "200")) THEN Get(responses, "200")
  ELSE IF Truthy(Get(responses, "201")) THEN Get(responses, "201")
  ELSE IF Truthy(Get(responses, "202")) THEN Get(responses, "202")
  ELSE Get(responses, "204")

\* lines 1090 and 1107-1110
StatusCode(responses) ==
  IF Truthy(Get(responses, "201")) THEN 201
  ELSE IF Truthy(Get(responses, "202")) THEN 202
  ELSE 200

\* mutant: every property is a wrapper key
IsWrapperAlways(prop) == TRUE

\* line 1150: prop?.type === 'object' || prop?.$ref
IsWrapper(prop) == Get(prop, "type") = Str("object") \/ Truthy(Get(prop, "$ref"))

\* lines 1129-1179: the result for the schema the response resolved to
AnalyzeSchema(st, statusCode, resolvedSchema, api) ==
  LET properties == Get(resolvedSchema, "properties")
      keys == [i \in 1..Len(properties.ent) |-> properties.ent[i].k]
      Result(wrapperKeys, primaryResource, importantFields, isArray) ==
        Obj(<<KV("statusCode", Num(statusCode)), KV("schema", resolvedSchema),
              KV("wrapperKeys", Arr([i \in 1..Len(wrapperKeys) |-> Str(wrapperKeys[i])])),
              KV("primaryResource", primaryResource),
              KV("importantFields",
                 Arr([i \in 1..Len(importantFields) |-> Str(importantFields[i])])),
              KV("isArray", Bool(isArray)),
              KV("hasActions", Bool(\E i \in 1..Len(wrapperKeys) :
                                      wrapperKeys[i] \in {"action", "actions"}))>>)
      \* the first wrapper key that is not the empty string, if there is one
      Primary(wrapperKeys) ==
        IF wrapperKeys = <<>> THEN Null
        ELSE IF wrapperKeys[1] # "" \/ Len(wrapperKeys) = 1 THEN Str(wrapperKeys[1])
        ELSE Str(wrapperKeys[2])
      Important(primarySchema) ==
        IF Truthy(Get(primarySchema, "properties"))
        THEN SelectSeq(<<"id", "uuid", "name", "slug">>,
                       LAMBDA f : Truthy(Get(Get(primarySchema, "properties"), f)))
        ELSE <<>>
      Finish(wrapperKeys, primary) ==
        IF ~Truthy(primary) THEN [res |-> Result(wrapperKeys, primary, <<>>, FALSE), st |-> st]
        ELSE IF Truthy(Get(Get(properties, primary.s), "$ref"))
        THEN LET Done(r) == [res |-> Result(wrapperKeys, primary, Important(r.res), FALSE),
                             st |-> r.st]
             IN Done(resolveRef(st, Get(Get(properties, primary.s), "$ref").s, api))
        ELSE [res |-> Result(wrapperKeys, primary, Important(Get(properties, primary.s)),
                             FALSE),
              st |-> st]
      Wrappers(wrapperKeys) == Finish(wrapperKeys, Primary(wrapperKeys))
  IN IF Get(resolvedSchema, "type") = Str("array")
     THEN [res |-> Result(<<>>, Null, <<>>, TRUE), st |-> st]
     ELSE IF Truthy(properties)
     THEN Wrappers(SelectSeq(keys, LAMBDA k : IsWrapper(Get(properties, k))))
     ELSE [res |-> Result(<<>>, Null, <<>>, FALSE), st |-> st]

\* lines 1081-1127
analyzeResponseStructure(st, operation, api) ==
  LET responses == IF Truthy(Get(operation, "responses")) THEN Get(operation, "responses")
                   ELSE Obj(<<>>)
      responseObj == SuccessResponse(responses)
      schema == Get(Get(Get(responseObj, "content"), "application/json"), "schema")
      Resolved(r) == IF r.res = Null \/ Has(r.res, "$ref") THEN [res |-> Null, st |-> r.st]
                     ELSE AnalyzeSchema(r.st, StatusCode(responses), r.res, api)
  IN IF ~Truthy(responseObj) \/ Has(responseObj, "$ref") \/ ~Truthy(schema)
     THEN [res |-> Null, st |-> st]
     ELSE IF Has(schema, "$ref") THEN Resolved(resolveRef(st, Get(schema, "$ref").s, api))
     ELSE AnalyzeSchema(st, StatusCode(responses), schema, api)

\* the operations analysed: every set of declared statuses, each status
\* with a schema of its own, and under 200 alone schemas with up to
\* MaxProperties properties, an array, references and a response without
\* a schema
MaxProperties == 3
AnalyzeOperations ==
  LET StatusKeys == {"200", "201", "202", "204", "404"}
      WrapperOf(status) ==
        Obj(<<KV("type", Str("object")),
              KV("properties",
                 Obj(<<KV("r" \o status, Obj(<<KV("type", Str("object"))>>))>>))>>)
      PropertyChoices ==
        {KV("server", Ref(RefUser)), KV("action", Obj(<<KV("type", Str("object"))>>)),
         KV("actions", Ref(RefMissing)), KV("count", Obj(<<KV("type", Str("integer"))>>)),
         KV("meta", Obj(<<KV("properties", Obj(<<>>))>>))}
  IN
  {Obj(<<KV("responses", Obj(SelectSeq(
       <<KV("404", JsonBody(WrapperOf("404"))), KV("204", JsonBody(WrapperOf("204"))),
         KV("202", JsonBody(WrapperOf("202"))), KV("201", JsonBody(WrapperOf("201"))),
         KV("200", JsonBody(WrapperOf("200")))>>,
       LAMBDA e : e.k \in declared)))>>) : declared \in SUBSET StatusKeys}
  \cup {Obj(<<KV("responses", Obj(<<KV("200", JsonBody(
          Obj(<<KV("type", Str("object")), KV("properties", Obj(props))>>)))>>))>>) :
          props \in {q \in UNION {[1..n -> PropertyChoices] : n \in 0..MaxProperties} :
                       \A i, j \in 1..Len(q) : i # j => q[i].k # q[j].k}}
  \cup {Obj(<<KV("responses", Obj(<<KV("201", r)>>))>>) :
          r \in {JsonBody(ShopList), JsonBody(Ref(RefUser)), JsonBody(Ref(RefMissing)),
                 JsonBody(Ref(RefAlias)), Ref(RefUser), Obj(<<KV("description", Str("done"))>>)}}
  \cup {Obj(<<>>)}

ApplyAnalyze(operation) ==
  \E one \in {analyzeResponseStructure([cache |-> refCache, log |-> <<>>, t |-> now],
                                       operation, "shop")} :
    /\ refCache' = one.st.cache
    /\ last' = [Idle EXCEPT !.tool = "analyzeResponseStructure", !.api = "shop", !.at = now,
                            !.property = operation, !.outcome = "returned",
                            !.value = one.res, !.calls = one.st.log]
    /\ UNCHANGED <<exampleCache, now, builds, pending>>

NextAnalyze == \E operation \in AnalyzeOperations : ApplyAnalyze(operation)

SpecAnalyze == Init /\ [][NextAnalyze]_vars

(***************************************************************************)
(* Properties of the example cache.                                        *)
(***************************************************************************)
ExampleTools == {"generate_code_example", "get_endpoint_details"}

IsExampleRequest == last.tool \in ExampleTools /\ last.outcome # "error"

KeysOf(view) == {view[i].key : i \in 1..Len(view)}

\* C1: a request whose key has a cache entry younger than exampleTTL returns
\* that entry's example object, builds nothing, calls resolveRef not once and
\* writes neither cache; in particular it returns the very example the
\* request just before it returned for the same key.
C1_HitReturnsSameExample ==
  [][\A i \in 1..Len(exampleCache) :
       (/\ last'.tool \in ExampleTools
        /\ last'.outcome # "error"
        /\ last'.key = exampleCache[i].key
        /\ now - exampleCache[i].timestamp < exampleTTL)
       => /\ last'.outcome = "hit"
          /\ last'.example = exampleCache[i].example
          /\ last'.calls = <<>>
          /\ builds' = builds
          /\ exampleCache' = exampleCache
          /\ refCache' = refCache
          /\ (IsExampleRequest /\ last.key = last'.key /\ last.outcome \in {"built", "hit"}
                => last'.example = last.example)]_vars

\* a second request for a key, straight after the request that built its example
C1_Witness ==
  /\ IsExampleRequest
  /\ last.outcome = "hit"
  /\ last.example.id = builds
  /\ last.example.usage # <<>>

\* C2: a request whose key has a cache entry of age exampleTTL or more does
\* not return that entry: the entry is gone once the cache check is over, a
\* new example is built, and the entry stored for the key holds the new
\* example with a timestamp not earlier than the time of the request.
C2_StaleEntryRebuilt ==
  \A i \in 1..Len(last.cacheBefore) :
    (/\ IsExampleRequest
     /\ last.cacheBefore[i].key = last.key
     /\ last.at - last.cacheBefore[i].timestamp >= exampleTTL)
    => /\ last.key \notin KeysOf(last.afterCheck)
       /\ last.outcome = "built"
       /\ last.example.id # last.cacheBefore[i].id
       /\ \A j \in 1..Len(last.cacheBefore) : last.example.id > last.cacheBefore[j].id
       /\ MapHas(exampleCache, last.key)
       /\ MapGet(exampleCache, last.key).example = last.example
       /\ MapGet(exampleCache, last.key).timestamp >= last.at

C2_Witness ==
  /\ IsExampleRequest
  /\ last.outcome = "built"
  /\ \E i \in 1..Len(last.cacheBefore) :
       /\ last.cacheBefore[i].key = last.key
       /\ last.at - last.cacheBefore[i].timestamp >= exampleTTL

\* C3: when a request for a key that is not in the cache is served while the
\* cache holds exactly exampleSize entries, the earliest-inserted entry and
\* no other is removed, it is gone before the new entry is inserted, and the
\* cache afterwards is the other entries, unchanged and in their order,
\* followed by the new entry.
C3_EvictsEarliestOnly ==
  (/\ IsExampleRequest
   /\ last.outcome = "built"
   /\ last.key \notin KeysOf(last.cacheBefore)
   /\ Len(last.cacheBefore) = exampleSize)
  => /\ last.afterCheck = last.cacheBefore
     /\ last.beforeSet = Tail(last.cacheBefore)
     /\ Len(exampleCache) = exampleSize
     /\ SubSeq(View(exampleCache), 1, exampleSize - 1) = Tail(last.cacheBefore)
     /\ exampleCache[exampleSize].key = last.key
     /\ exampleCache[exampleSize].example = last.example

C3_Witness ==
  /\ IsExampleRequest
  /\ last.outcome = "built"
  /\ last.key \notin KeysOf(last.cacheBefore)
  /\ Len(last.cacheBefore) = exampleSize
  /\ exampleSize > 1

(***************************************************************************)
(* Properties of resolveRef, read off the calls the requests make.         *)
(***************************************************************************)
\* the value at ref in a document, by the words of the claim: strip '#/',
\* split on '/', index by each segment in turn; null for a ref that does not
\* start with '#/', for a missing segment and for an intermediate value that
\* is not an object
RECURSIVE IndexSuccessively(_, _)
IndexSuccessively(v, segments) ==
  IF segments = <<>> THEN v
  ELSE IF v.kind \notin {"obj", "arr"} \/ ~Has(v, Head(segments)) THEN Null
       ELSE IndexSuccessively(Get(v, Head(segments)), Tail(segments))

ValueAt(ref, spec) ==
  IF Len(Tokens(ref)) >= 2 /\ SubSeq(Tokens(ref), 1, 2) = <<"#", "/">>
  THEN IndexSuccessively(spec, Split(SubSeq(Tokens(ref), 3, Len(Tokens(ref)))))
  ELSE Null

\* C4 as claimed: every resolveRef call returns the value at ref in the
\* document it was given.
C4_ReturnsValueAtRef ==
  \A i \in 1..Len(last.calls) :
    last.calls[i].res = ValueAt(last.calls[i].ref, specs[last.calls[i].api])

\* the memo as call i of a request finds it: the memo before the request and
\* what the earlier calls of the request stored
MemoAt(before, calls, i, ref) ==
  IF before[ref] # NoEntry THEN before[ref]
  ELSE IF \E j \in 1..(i - 1) : calls[j].ref = ref /\ calls[j].res # Null
       THEN calls[CHOOSE j \in 1..(i - 1) : calls[j].ref = ref /\ calls[j].res # Null].res
       ELSE NoEntry

\* C4 amended: a resolveRef call for a ref that has a memo entry returns the
\* memoized value; any other call returns the value at ref in the document it
\* was given when that value is truthy, and null when the ref does not start
\* with '#/', a segment is missing, an intermediate value is not an object,
\* or the value found is falsy (false, 0, '' or null).
C4_ReturnsTruthyValueAtRef ==
  [][\A i \in 1..Len(last'.calls) :
       LET c == last'.calls[i]
           memo == MemoAt(refCache, last'.calls, i, c.ref)
           found == ValueAt(c.ref, specs[c.api])
       IN IF memo # NoEntry THEN c.res = memo
          ELSE c.res = IF Truthy(found) THEN found ELSE Null]_vars

\* one request resolves a schema, a missing schema, a ref through a string,
\* an external ref and the schema false
C4_Witness ==
  /\ \E i \in 1..Len(last.calls) :
       last.calls[i].walked /\ last.calls[i].ref = RefNever /\ last.calls[i].res = Null
  /\ \E i \in 1..Len(last.calls) :
       last.calls[i].walked /\ last.calls[i].ref = RefExternal /\ last.calls[i].res = Null
  /\ \E i \in 1..Len(last.calls) :
       last.calls[i].walked /\ last.calls[i].ref = RefThroughString /\ last.calls[i].res = Null

\* C5: every resolveRef call returns the value its own document holds at the
\* ref, whatever was resolved before against another document.
C5_OwnDocumentValue ==
  \A i \in 1..Len(last.calls) :
    last.calls[i].res = WalkRef(last.calls[i].ref, specs[last.calls[i].api])

\* C6: what is memoized stays: a call for a memoized ref returns the memoized
\* object and does not walk; no step but cleanup removes or replaces a memo
\* entry; an entry appears only for a call that walked and found a value, and
\* a call that fails leaves the ref without an entry.
C6_MemoStable ==
  [][/\ \A ref \in AllRefs :
          /\ (refCache[ref] # NoEntry /\ last'.tool # "cleanup")
               => refCache'[ref] = refCache[ref]
          /\ (refCache[ref] = NoEntry /\ refCache'[ref] # NoEntry)
               => \E i \in 1..Len(last'.calls) :
                    /\ last'.calls[i].ref = ref
                    /\ last'.calls[i].walked
                    /\ last'.calls[i].res = refCache'[ref]
                    /\ last'.calls[i].res # Null
     /\ \A i \in 1..Len(last'.calls) :
          LET c == last'.calls[i]
              memo == MemoAt(refCache, last'.calls, i, c.ref)
          IN /\ memo # NoEntry => ~c.walked /\ c.res = memo
             /\ (c.walked /\ c.res = Null) => refCache'[c.ref] = NoEntry]_vars

\* a request that finds memoized what an earlier request resolved, and that
\* fails once more on a ref that failed before
C6_Witness ==
  /\ IsExampleRequest
  /\ last.api = "shop"
  /\ \A i \in 1..Len(last.calls) : last.calls[i].api = "shop"
  /\ \E i \in 1..Len(last.calls) : ~last.calls[i].walked /\ last.calls[i].res # Null
  /\ \E i \in 1..Len(last.calls) : last.calls[i].walked /\ last.calls[i].res = Null
  /\ refCache[RefMissing] = NoEntry

(***************************************************************************)
(* Properties of generateExampleValue.                                     *)
(***************************************************************************)
IsValueRequest == last.tool = "generateExampleValue"

HasEnum(p) == Get(p, "enum").kind = "arr" /\ Get(p, "enum").ent # <<>>

\* a node that none of the first three rules answers
Unanswered(p) == Get(p, "example") = Undef /\ Get(p, "default") = Undef /\ ~HasEnum(p)

\* C7: the rules apply in the order example, default, enum, $ref, type,
\* the first that matches deciding alone: a defined example is returned as
\* it is, else a defined default, else the first element of a non-empty
\* enum, none of the three calling resolveRef; else a $ref that resolves is
\* answered by the synthesis of its target, whatever type the node declares;
\* only a node that none of the four answers is answered by its type, when
\* the synthesis returns.
C7_FirstMatchWins ==
  [][last'.tool = "generateExampleValue" =>
      LET p == last'.property
          start == [cache |-> refCache, log |-> <<>>, t |-> now]
          r == resolveRef(start, Get(p, "$ref").s, last'.api)
          target == generateExampleValue(r.st, r.res, last'.propertyName, last'.api, MaxStack - 1)
      IN IF Get(p, "example") # Undef
         THEN last'.outcome = "returned" /\ last'.value = Get(p, "example") /\ last'.calls = <<>>
         ELSE IF Get(p, "default") # Undef
         THEN last'.outcome = "returned" /\ last'.value = Get(p, "default") /\ last'.calls = <<>>
         ELSE IF HasEnum(p)
         THEN /\ last'.outcome = "returned"
              /\ last'.value = Get(Get(p, "enum"), "0")
              /\ last'.calls = <<>>
         ELSE IF Has(p, "$ref") /\ r.res # Null
         THEN /\ last'.calls # <<>>
              /\ last'.calls[1].ref = Get(p, "$ref").s
              /\ last'.value = target.v
              /\ (last'.outcome = "threw") = target.threw
              /\ last'.calls = target.st.log
         ELSE /\ (Has(p, "$ref") => last'.calls # <<>> /\ last'.calls[1].res = Null)
              /\ (~Has(p, "$ref") /\ ~IsType(p, "array")) => last'.calls = <<>>
              /\ (last'.outcome = "returned" /\ IsType(p, "string")) => last'.value.kind = "str"
              /\ (last'.outcome = "returned" /\ IsType(p, "array")) => last'.value.kind = "arr"
              /\ (IsType(p, "number") \/ IsType(p, "integer")) => last'.value.kind = "num"
              /\ (~IsType(p, "string") /\ ~IsType(p, "array") /\ ~Has(p, "properties")
                  /\ ~IsType(p, "object") /\ ~IsType(p, "number") /\ ~IsType(p, "integer")
                  /\ ~IsType(p, "boolean")) => last'.value = Null]_vars

\* a node with an example, a default, an enum, a $ref that resolves and a type
C7_Witness ==
  /\ IsValueRequest
  /\ Get(last.property, "example") = Bool(FALSE)
  /\ Get(last.property, "default") # Undef
  /\ HasEnum(last.property)
  /\ Get(last.property, "$ref") = Str(RefUser)
  /\ Get(last.property, "type") = Str("array")
  /\ last.value = Bool(FALSE)

\* C8: generateExampleValue returns a value, without throwing, for every
\* schema, the schemas that lead back to themselves included.
C8_NeverThrows == IsValueRequest => last.outcome = "returned"

\* strings that name a ref
PlaceholdersFor(ref) ==
  {ref, "/* Reference to " \o ref \o " */", "Reference to " \o ref, "<" \o ref \o ">",
   "unresolved " \o ref}

\* C9: for a node with a $ref that does not resolve, and no example, default
\* or enum, generateExampleValue returns a placeholder string naming the ref.
C9_PlaceholderForUnresolvedRef ==
  (/\ IsValueRequest
   /\ Unanswered(last.property)
   /\ Has(last.property, "$ref")
   /\ last.calls # <<>>
   /\ last.calls[1].res = Null)
  => /\ last.outcome = "returned"
     /\ last.value.kind = "str"
     /\ last.value.s \in PlaceholdersFor(Get(last.property, "$ref").s)

\* the schema has nothing to synthesize a value from
NoValue(schema) ==
  /\ Unanswered(schema)
  /\ ~Has(schema, "$ref")
  /\ ~Has(schema, "properties")
  /\ \A ty \in {"string", "number", "integer", "boolean", "array", "object"} : ~IsType(schema, ty)

\* the names of the parameters and of the body properties of an operation
\* whose schema has nothing to synthesize a value from
NoValueFields(api, path, method) ==
  LET operation == Get(Get(Get(specs[api], "paths"), path), MethodLower(method))
      params == Get(operation, "parameters").ent
      bodySchema == Get(Get(Get(Get(operation, "requestBody"), "content"),
                            "application/json"), "schema")
      body == IF Has(bodySchema, "$ref") THEN ValueAt(Get(bodySchema, "$ref").s, specs[api])
              ELSE bodySchema
      props == Get(body, "properties").ent
  IN {Get(params[i].v, "name").s : i \in {j \in 1..Len(params) :
                                             NoValue(Get(params[j].v, "schema"))}}
     \cup {props[i].k : i \in {j \in 1..Len(props) : NoValue(props[j].v)}}

\* C10: the generated code has no line for a parameter or a body property
\* whose schema has nothing to synthesize a value from.
C10_NoValueFieldOmitted ==
  (IsExampleRequest /\ last.outcome = "built")
  => \A i \in 1..Len(last.example.usage) :
       last.example.usage[i].form \in {"field", "commented"}
       => last.example.usage[i].name \notin NoValueFields(last.api, last.path, last.method)

\* a node that the type dispatch answers: none of the first three rules
\* applies and no $ref of it resolves
AnsweredByType(p) ==
  /\ Unanswered(p)
  /\ \A i \in 1..Len(last.calls) :
       last.calls[i].ref = Get(p, "$ref").s => last.calls[i].res = Null

\* C11: a node of type number or integer that the type dispatch answers
\* gives 1 when its format is int64 and 10 otherwise, whichever of the two
\* types it declares.
C11_Int64GivesOne ==
  (/\ IsValueRequest
   /\ AnsweredByType(last.property)
   /\ Get(last.property, "type") \in {Str("number"), Str("integer")})
  => /\ last.outcome = "returned"
     /\ last.value = IF Get(last.property, "format") = Str("int64") THEN Num(1) ELSE Num(10)

\* which of the substrings id, name, email, url, token the lowercased name has
NameHas(name) ==
  CASE name = "userId" -> {"id"}
    [] name = "fullName" -> {"name"}
    [] name = "Email" -> {"email"}
    [] name = "emailId" -> {"id", "email"}
    [] name = "tokenUrl" -> {"url", "token"}
    [] name = "authToken" -> {"token"}
    [] name = "homeURL" -> {"url"}
    [] name = "video" -> {"id"}
    [] name = "nameToken" -> {"name", "token"}
    [] OTHER -> {}

\* C12: for a node of type string that the type dispatch answers, a format
\* among email, date-time, date, uuid, uri, url decides the value whatever
\* the property name; without such a format the first of id, name, email,
\* url, token that the lowercased name contains decides it, and the generic
\* placeholder is returned when it contains none.
C12_FormatThenName ==
  (/\ IsValueRequest
   /\ AnsweredByType(last.property)
   /\ Get(last.property, "type") = Str("string"))
  => /\ last.outcome = "returned"
     /\ last.value.kind = "str"
     /\ LET format == Get(last.property, "format")
            has == NameHas(last.propertyName)
        IN last.value.s =
             IF format = Str("email") THEN "user@example.com"
             ELSE IF format = Str("date-time")
                  THEN "day" \o ToString(last.at \div TicksPerDay) \o "T"
                       \o ToString(last.at % TicksPerDay) \o "Z"
             ELSE IF format = Str("date") THEN "day" \o ToString(last.at \div TicksPerDay)
             ELSE IF format = Str("uuid") THEN "123e4567-e89b-12d3-a456-426614174000"
             ELSE IF format \in {Str("uri"), Str("url")} THEN "https://example.com"
             ELSE IF "id" \in has THEN "example-id"
             ELSE IF "name" \in has THEN "Example Name"
             ELSE IF "email" \in has THEN "user@example.com"
             ELSE IF "url" \in has THEN "https://example.com"
             ELSE IF "token" \in has THEN "example_token_123"
             ELSE "example_value"

\* a name that contains url and token, on a node without a format
C12_Witness ==
  /\ IsValueRequest
  /\ last.property = Obj(<<KV("type", Str("string"))>>)
  /\ last.propertyName = "tokenUrl"
  /\ last.value = Str("https://example.com")

\* C13: a node of type array that the type dispatch answers gives a
\* sequence of exactly one element: the synthesis of items when items is
\* present, the generic placeholder when it is absent.
C13_OneElementArray ==
  (/\ IsValueRequest
   /\ AnsweredByType(last.property)
   /\ Get(last.property, "type") = Str("array"))
  => /\ last.outcome = "returned"
     /\ last.value.kind = "arr"
     /\ Len(last.value.ent) = 1
     /\ LET items == Get(last.property, "items")
        IN IF items = Undef THEN last.value.ent[1].v = Str("example")
           ELSE last.value.ent[1].v =
                  generateExampleValue([cache |-> refCache, log |-> <<>>, t |-> last.at],
                                       items, last.propertyName, last.api, MaxStack).v

(***************************************************************************)
(* Properties of generateRequestBodyCode.                                  *)
(***************************************************************************)
IsBodyRequest == last.tool = "generateRequestBodyCode"

\* a schema with its $ref, when it has one, followed in the request's document
Followed(schema) ==
  IF Has(schema, "$ref") THEN ValueAt(Get(schema, "$ref").s, specs[last.api]) ELSE schema

\* the lines of the generated body that stand for a property
FieldLines(usage) == SelectSeq(usage, LAMBDA l : l.form \in {"field", "commented"})

NamesOf(lines) == [i \in 1..Len(lines) |-> lines[i].name]

KeysIn(properties) == [i \in 1..Len(properties.ent) |-> properties.ent[i].k]

RequiredOf(schema) ==
  IF Get(schema, "required").kind = "arr"
  THEN {Get(schema, "required").ent[i].v.s : i \in 1..Len(Get(schema, "required").ent)}
  ELSE {}

\* C14: when the request-body schema has oneOf, the generated body has the
\* properties of the first declared branch, written inline or as a $ref,
\* each required as that branch requires it, and no other field.
C14_FirstBranchOnly ==
  (/\ IsBodyRequest
   /\ Followed(last.property).kind = "obj"
   /\ Get(Followed(last.property), "oneOf").kind = "arr"
   /\ Followed(Get(Get(Followed(last.property), "oneOf"), "0")).kind = "obj")
  => LET branch == Followed(Get(Get(Followed(last.property), "oneOf"), "0"))
         lines == FieldLines(last.example.usage)
     IN /\ last.outcome = "returned"
        /\ NamesOf(lines) = KeysIn(Get(branch, "properties"))
        /\ \A i \in 1..Len(lines) :
             (lines[i].form = "field") = (lines[i].name \in RequiredOf(branch))

\* what the flattened body is made from: the allOf branches that resolve,
\* in declaration order, then the schema itself
SourcesOf(schema) ==
  LET branches == IF Get(schema, "allOf").kind = "arr" THEN Get(schema, "allOf").ent ELSE <<>>
      followed == [i \in 1..Len(branches) |-> Followed(branches[i].v)]
  IN SelectSeq(followed, LAMBDA b : b.kind = "obj") \o <<schema>>

Defines(source, name) == Has(Get(source, "properties"), name)

FlatNames(sources) ==
  UNION {{Get(sources[i], "properties").ent[j].k :
            j \in 1..Len(Get(sources[i], "properties").ent)} : i \in 1..Len(sources)}

FlatRequired(sources) == UNION {RequiredOf(sources[i]) : i \in 1..Len(sources)}

\* the definition of a name that wins: the one of the last source defining it
Winning(sources, name) ==
  LET k == CHOOSE i \in 1..Len(sources) :
             /\ Defines(sources[i], name)
             /\ \A j \in (i + 1)..Len(sources) : ~Defines(sources[j], name)
  IN Get(Get(sources[k], "properties"), name)

\* the body schema of the request, after its own $ref
UsesAllOf ==
  /\ IsBodyRequest
  /\ Followed(last.property).kind = "obj"
  /\ Get(Followed(last.property), "allOf").kind = "arr"
  /\ ~Has(Followed(last.property), "oneOf")

\* C15: for a request-body schema with allOf the body is generated, even
\* with a branch whose $ref does not resolve; its fields are the names
\* defined by a resolving branch or by the schema itself, each with the
\* value of its last definition (branches in declaration order, then the
\* schema's own properties), and a field is required exactly when a branch
\* or the schema itself requires it.
C15_AllOfFlattened ==
  UsesAllOf
  => LET sources == SourcesOf(Followed(last.property))
         lines == FieldLines(last.example.usage)
     IN /\ last.outcome = "returned"
        /\ {lines[i].name : i \in 1..Len(lines)} = FlatNames(sources)
        /\ \A i \in 1..Len(lines) :
             /\ lines[i].value =
                  ValueStr(generateExampleValue([cache |-> refCache, log |-> <<>>, t |-> last.at],
                                                Winning(sources, lines[i].name),
                                                lines[i].name, last.api, MaxStack).v)
             /\ (lines[i].form = "field") = (lines[i].name \in FlatRequired(sources))

\* two branches define kind with different types, the later one wins
C15_Witness ==
  /\ IsBodyRequest
  /\ last.property = Obj(<<KV("allOf", Arr(<<Ref(RefBase), Ref(RefExtra)>>))>>)
  /\ \E i \in 1..Len(last.example.usage) :
       last.example.usage[i] = Line("field", "kind", "10", "required")

\* C16: in a generated request body (oneOf set aside) every flattened
\* property has exactly one line, a live assignment marked required when
\* its name is in the flattened required set and a commented-out line
\* marked optional otherwise; a required name without a property has no line.
C16_RequiredLiveOptionalCommented ==
  (/\ IsBodyRequest
   /\ last.outcome = "returned"
   /\ Followed(last.property).kind = "obj"
   /\ ~Has(Followed(last.property), "$ref")
   /\ ~Has(Followed(last.property), "oneOf"))
  => LET sources == SourcesOf(Followed(last.property))
         lines == FieldLines(last.example.usage)
     IN /\ \A name \in FlatNames(sources) :
             Cardinality({i \in 1..Len(lines) : lines[i].name = name}) = 1
        /\ \A i \in 1..Len(lines) :
             /\ lines[i].name \in FlatNames(sources)
             /\ IF lines[i].name \in FlatRequired(sources)
                THEN lines[i].form = "field" /\ lines[i].mark = "required"
                ELSE lines[i].form = "commented" /\ lines[i].mark = "optional"
        /\ \A name \in FlatRequired(sources) \ FlatNames(sources) :
             \A i \in 1..Len(last.example.usage) : last.example.usage[i].name # name

\* the User body: id is required, name is optional, ghost is required but
\* is no property
C16_Witness ==
  /\ IsBodyRequest
  /\ last.property = Ref(RefUser)
  /\ last.outcome = "returned"
  /\ "ghost" \in FlatRequired(SourcesOf(Followed(last.property)))
  /\ \E i, j \in 1..Len(last.example.usage) :
       /\ last.example.usage[i].name = "id" /\ last.example.usage[i].form = "field"
       /\ last.example.usage[j].name = "name" /\ last.example.usage[j].form = "commented"

(***************************************************************************)
(* Properties of the tools.                                                *)
(***************************************************************************)
\* the request fails: no example, no schema, both caches as they were
FailsWith(message) ==
  /\ last'.outcome = "error"
  /\ last'.error = message
  /\ last'.example = NoExample
  /\ last'.value = Undef
  /\ exampleCache' = exampleCache
  /\ refCache' = refCache

\* C17: a request for a path the document does not have, for a method the
\* path has no operation for, or for a schema name that is not in
\* components.schemas fails with an error naming the path, the method and
\* path, or the schema; it returns nothing and changes neither the example
\* cache nor the ref memo.
C17_MissingIsAnError ==
  [][/\ last'.tool \in ExampleTools =>
          LET pathItem == Get(Get(specs[last'.api], "paths"), last'.path)
              named == "Method " \o last'.method \o " not found for " \o last'.path
          IN IF pathItem = Undef THEN FailsWith("Path not found: " \o last'.path)
             ELSE Get(pathItem, MethodLower(last'.method)) = Undef
                  => FailsWith(IF last'.tool = "generate_code_example" THEN named
                               ELSE named \o ". Available: " \o AvailableMethods(pathItem))
     /\ last'.tool = "get_schema_details" =>
          LET doc == specs[last'.api]
          IN ~Has(Get(Get(doc, "components"), "schemas"), last'.propertyName)
             => FailsWith("Schema \"" \o last'.propertyName \o "\" not found. Available: "
                          \o AvailableSchemas(doc))]_vars

\* a method the path does not have, asked for with examples in the cache
C17_Witness ==
  /\ last.tool = "get_endpoint_details"
  /\ last.outcome = "error"
  /\ last.error = "Method DELETE not found for /users. Available: POST, GET"
  /\ exampleCache # <<>>
  /\ refCache[RefUser] # NoEntry

(***************************************************************************)
(* Failures of example generation.                                         *)
(***************************************************************************)
\* the operation exists and its example can be built (or is served from the
\* cache) with the given memo and example cache
Succeeds(memo, cache, req) ==
  LET operation == Get(Get(Get(specs[req[1]], "paths"), req[2]), MethodLower(req[3]))
  IN /\ Truthy(operation)
     /\ \/ IsFresh(cache, CacheKey(req[1], req[2], req[3]), now)
        \/ ~BuildUsage([cache |-> memo, log |-> <<>>, t |-> now],
                       req[1], req[2], req[3], operation).threw

\* the latest request was an example generation that threw
GenerationFailed == last.tool \in ExampleTools /\ last.outcome = "threw"

Done(i) == pending[i].served # 0

\* the step serves invocation i and no other
Serves(i) ==
  /\ pending[i].served = 0
  /\ pending'[i].served = Served + 1
  /\ \A j \in 1..Len(pending) : j # i => pending'[j] = pending[j]

\* the invocation that built the example with this identity
BuilderOf(id) == CHOOSE i \in 1..Len(pending) : pending[i].outcome = "built" /\ pending[i].id = id

\* every change of the example cache or of the ref memo is the whole of one
\* handler: its check read the cache the step started from, and the cache
\* the step ends with is that cache after the check, the eviction and the
\* insert of this one invocation
RunsToCompletion ==
  (exampleCache' # exampleCache \/ refCache' # refCache) =>
    \E i \in 1..Len(pending) :
      /\ Serves(i)
      /\ last'.key = pending[i].key
      /\ last'.cacheBefore = View(exampleCache)
      /\ last'.afterCheck = View(MapDelete(exampleCache, pending[i].key))
      /\ last'.outcome = "built"
      /\ last'.beforeSet = View(EvictFirst(MapDelete(exampleCache, pending[i].key)))
      /\ View(exampleCache') =
           Append(last'.beforeSet, [key |-> pending[i].key, timestamp |-> now',
                                    id |-> builds + 1])

\* an invocation served while the example an earlier invocation built for
\* its key is in the cache and younger than the TTL does not build
SecondRequestHits ==
  \A i \in 1..Len(pending) :
    (/\ Serves(i)
     /\ MapHas(exampleCache, pending[i].key)
     /\ now - MapGet(exampleCache, pending[i].key).timestamp < exampleTTL)
    => /\ pending'[i].outcome = "hit"
       /\ builds' = builds
       /\ exampleCache' = exampleCache
       /\ \E j \in 1..Len(pending) :
            /\ Done(j) /\ pending[j].key = pending[i].key /\ pending[j].outcome = "built"
            /\ pending'[i].id = pending[j].id

\* the entries of the cache are in the order in which their misses were
\* served, and the entry a step evicts is the one whose miss was served first
InServiceOrder ==
  \A a, b \in 1..Len(exampleCache) :
    a < b => pending[BuilderOf(exampleCache[a].example.id)].served
             < pending[BuilderOf(exampleCache[b].example.id)].served

EvictsEarliestServed ==
  \A a \in 1..Len(exampleCache) :
    (exampleCache[a].key # last'.key /\ ~MapHas(exampleCache', exampleCache[a].key))
    => \A b \in 1..Len(exampleCache) :
         pending[BuilderOf(exampleCache[a].example.id)].served
         <= pending[BuilderOf(exampleCache[b].example.id)].served

\* of two invocations for one key served less than a TTL apart, at most one
\* builds
OneBuildPerWindow ==
  \A i, j \in 1..Len(pending) :
    (/\ i # j /\ Done(i) /\ Done(j)
     /\ pending[i].key = pending[j].key
     /\ pending[i].at <= pending[j].at
     /\ pending[j].at - pending[i].at < exampleTTL)
    => ~(pending[i].outcome = "built" /\ pending[j].outcome = "built")

\* C19 as stated: under any order of dispatch every handler runs its check,
\* build, eviction and insert to completion before another reads or writes
\* the caches, two invocations for one key inside one TTL window cause one
\* build, and entries are evicted in the order their misses were served.
C19_SerializedOneBuild ==
  /\ [][RunsToCompletion /\ EvictsEarliestServed]_vars
  /\ [](InServiceOrder /\ OneBuildPerWindow)

\* C19, amended: as above, but the second invocation for a key is spared the
\* build only while the entry the first one inserted is still in the cache;
\* once that entry has been evicted the key is built again, inside the TTL
\* window or not.
C19_SerializedDispatch ==
  /\ [][RunsToCompletion /\ EvictsEarliestServed /\ SecondRequestHits]_vars
  /\ []InServiceOrder

\* four invocations served in another order than they arrived: one was a
\* hit on what another had built, and three builds left two entries
C19_Witness ==
  /\ Len(pending) = MaxPending
  /\ \A i \in 1..Len(pending) : Done(i)
  /\ \E i, j \in 1..Len(pending) : i < j /\ pending[i].served > pending[j].served
  /\ \E i \in 1..Len(pending) : pending[i].outcome = "hit"
  /\ builds = 3
  /\ Len(exampleCache) = exampleSize

(***************************************************************************)
(* Properties of the response handling code.                               *)
(***************************************************************************)
IsResponseRequest ==
  /\ last.tool = "generateResponseHandlingCode"
  /\ last.value # Null
  /\ last.property # Null

\* the variants of the structure that have properties, in declaration order
WithProperties == SelectSeq(VariantsOf(last.property), LAMBDA v : Properties(v) # <<>>)

\* the line that opens the branch of a key
Opens(condition, key) == Text(condition \o " ('" \o key \o "' in response) {")

KeysOfVariants == {properties[1] : properties \in PropertyLists \ {<<>>}}
OpeningLines == {Opens(condition, key) : condition \in {"if", "else if"}, key \in KeysOfVariants}

\* the lines inside a branch, and the lines around the branches
BranchBodyLines ==
  UNION {{Text("  console.log('" \o key \o " created:', response." \o key \o ".length)"),
          Text("  response." \o key \o ".forEach((item, idx) => {"),
          ItemIdLine,
          Text("  })"),
          Text("  console.log('" \o key \o " created:', response." \o key \o ")"),
          Text("  console.log('ID:', response." \o key \o ".id)")} : key \in KeysOfVariants}

\* C20: for a union with more than one variant that has properties, the
\* lines that open a branch are, in the order of the variants' declaration,
\* `if ('<key>' in response) {` for the first such variant and
\* `else if ('<key>' in response) {` for each later one, <key> being the
\* variant's first property; every other line is the heading, a line inside
\* a branch or a closing brace, so no else branch follows the last one.
C20_IfElseIfPerVariant ==
  (IsResponseRequest /\ Get(last.property, "isUnion") = Bool(TRUE) /\ Len(WithProperties) > 1)
  => LET lines == last.example.usage
     IN /\ SelectSeq(lines, LAMBDA l : l \in OpeningLines)
           = [i \in 1..Len(WithProperties) |->
                Opens(IF i = 1 THEN "if" ELSE "else if", Properties(WithProperties[i])[1])]
        /\ \A i \in 1..Len(lines) :
             lines[i] \in OpeningLines \cup BranchBodyLines
                          \cup {Text(""), Text("// Handle response based on structure"),
                                Text("}")}
        /\ lines[Len(lines)] = Text("}")
        /\ \A i \in 1..Len(lines) : lines[i] \in OpeningLines => i > 2 /\ lines[i - 1] \in
             {Text("// Handle response based on structure"), Text("}")}

\* droplet, then a variant without properties, then the array droplets
C20_Witness ==
  /\ IsResponseRequest
  /\ last.property = ResponseStructure(TRUE, <<Variant(<<"droplet">>, FALSE),
                                                 Variant(<<>>, FALSE),
                                                 Variant(<<"droplets", "links">>, TRUE)>>)
  /\ last.example.usage =
       <<Text(""), Text("// Handle response based on structure"),
         Text("if ('droplet' in response) {"),
         Text("  console.log('droplet created:', response.droplet)"),
         Text("  console.log('ID:', response.droplet.id)"),
         Text("}"),
         Text("else if ('droplets' in response) {"),
         Text("  console.log('droplets created:', response.droplets.length)"),
         Text("  response.droplets.forEach((item, idx) => {"),
         ItemIdLine,
         Text("  })"),
         Text("}")>>

(***************************************************************************)
(* Properties of search_endpoints.                                         *)
(***************************************************************************)
IsSearch == last.tool = "search_endpoints"

\* the operations of the document in document order, each with its place
Operations ==
  LET paths == Get(specs["pets"], "paths")
  IN {<<p, e>> \in (1..Len(paths.ent)) \X (1..3) :
        /\ e <= Len(paths.ent[p].v.ent)
        /\ paths.ent[p].v.ent[e].k \in {"get", "post", "put", "delete", "patch", "options",
                                        "head"}}

Before(a, b) == a[1] < b[1] \/ (a[1] = b[1] /\ a[2] < b[2])

\* the operation at a place answers the search
Answers(o) ==
  LET paths == Get(specs["pets"], "paths")
      path == paths.ent[o[1]].k
      m == paths.ent[o[1]].v.ent[o[2]].k
      op == paths.ent[o[1]].v.ent[o[2]].v
      q == IF last.property = Undef THEN <<>> ELSE ToLowerCase(Chars(last.property.s))
  IN /\ \/ q = <<>>
        \/ Includes(ToLowerCase(Chars(path)), q)
        \/ Has(op, "summary") /\ Includes(ToLowerCase(Chars(Get(op, "summary").s)), q)
        \/ Has(op, "operationId") /\ Includes(ToLowerCase(Chars(Get(op, "operationId").s)), q)
     /\ last.value # Undef => last.value.s = MethodUpper(m)

\* the place of a result in the document
PlaceOf(result) ==
  LET paths == Get(specs["pets"], "paths")
  IN CHOOSE o \in Operations :
       /\ paths.ent[o[1]].k = Get(result, "path").s
       /\ MethodUpper(paths.ent[o[1]].v.ent[o[2]].k) = Get(result, "method").s

\* the results are operations that answer the search, in document order,
\* and none that answers it is passed over before the last of them
FirstMatchesInOrder ==
  LET results == last.calls
  IN /\ \A i \in 1..Len(results) :
          \E o \in Operations :
            /\ Answers(o)
            /\ Get(results[i], "path").s = Get(specs["pets"], "paths").ent[o[1]].k
            /\ Get(results[i], "method").s
               = MethodUpper(Get(specs["pets"], "paths").ent[o[1]].v.ent[o[2]].k)
     /\ \A i, j \in 1..Len(results) :
          i < j => Before(PlaceOf(results[i]), PlaceOf(results[j]))
     /\ \A o \in Operations :
          (Answers(o) /\ \A i \in 1..Len(results) : PlaceOf(results[i]) # o)
          => /\ \A i \in 1..Len(results) : Before(PlaceOf(results[i]), o)
             /\ Len(results) * last.limit.den >= last.limit.num

\* C21: search_endpoints returns at most limit results; each is an operation
\* under a method key that contains the query (if one is given) in its path,
\* summary or operationId, case-insensitively, and has the method asked for
\* (if one is given); they are the first such operations in document order.
C21_AtMostLimitFirstMatches ==
  IsSearch => /\ Len(last.calls) * last.limit.den <= last.limit.num
              /\ FirstMatchesInOrder

(***************************************************************************)
(* Further properties of the example cache.                                *)
(***************************************************************************)
\* C22: a hit leaves the example cache as it was, timestamps and order
\* included: the entry is fresh at exactly the times it was fresh at before
\* the hit, it is the entry a full cache evicts next if it was so before,
\* and a miss that follows a hit on the earliest-inserted entry of a full
\* cache evicts that entry.
C22_HitChangesNothing ==
  [][/\ (last'.tool \in ExampleTools /\ last'.outcome = "hit")
        => /\ exampleCache' = exampleCache
           /\ \A t \in now..(now + exampleTTL) :
                IsFresh(exampleCache', last'.key, t)
                = (t - MapGet(exampleCache, last'.key).timestamp < exampleTTL)
           /\ (Len(exampleCache) = exampleSize /\ exampleCache[1].key = last'.key)
              => ~MapHas(EvictFirst(exampleCache'), last'.key)
     /\ (/\ IsExampleRequest /\ last.outcome = "hit"
         /\ Len(exampleCache) = exampleSize /\ exampleCache[1].key = last.key
         /\ last'.tool \in ExampleTools /\ last'.outcome = "built"
         /\ ~MapHas(exampleCache, last'.key))
        => ~MapHas(exampleCache', last.key)]_vars

\* a hit on the earliest-inserted entry of a full cache, one tick after it
\* was built
C22_Witness ==
  /\ IsExampleRequest
  /\ last.outcome = "hit"
  /\ Len(exampleCache) = exampleSize
  /\ exampleCache[1].key = last.key
  /\ now > exampleCache[1].timestamp

(***************************************************************************)
(* Further properties of resolveRef.                                       *)
(***************************************************************************)
\* C23: every value resolveRef returns that is not null, and every value in
\* the ref memo, has no $ref of its own, also when the location the
\* reference names holds nothing but a $ref to another location.
C23_ResolvedHasNoRef ==
  /\ \A ref \in AllRefs : CacheHas(refCache, ref) => ~Has(refCache[ref], "$ref")
  /\ IsBodyRequest => \A i \in 1..Len(last.calls) :
                        last.calls[i].res # Null => ~Has(last.calls[i].res, "$ref")

(***************************************************************************)
(* Properties of analyzeResponseStructure.                                 *)
(***************************************************************************)
IsAnalysis == last.tool = "analyzeResponseStructure"

Declared == Get(last.property, "responses")

\* the first of 200, 201, 202, 204 the operation declares, "" if none
FirstSuccess ==
  IF Has(Declared, "200") THEN "200" ELSE IF Has(Declared, "201") THEN "201"
  ELSE IF Has(Declared, "202") THEN "202" ELSE IF Has(Declared, "204") THEN "204" ELSE ""

\* the JSON schema declared under a status
SchemaUnder(status) ==
  Get(Get(Get(Get(Declared, status), "content"), "application/json"), "schema")

\* C24: the response analysed is the one declared under the first present
\* of 200, 201, 202, 204: with an inline schema there, the structure returned
\* has that schema; with a reference there, the first reference resolved is
\* that one and the structure has the schema it resolves to; an operation
\* that declares none of the four gets no structure.
C24_FirstSuccessAnalysed ==
  IsAnalysis =>
    IF FirstSuccess = "" THEN last.value = Null /\ last.calls = <<>>
    ELSE LET schema == SchemaUnder(FirstSuccess)
         IN /\ (schema # Undef /\ ~Has(schema, "$ref"))
               => last.value # Null /\ Get(last.value, "schema") = schema
            /\ (schema # Undef /\ Has(schema, "$ref"))
               => /\ last.calls # <<>>
                  /\ last.calls[1].ref = Get(schema, "$ref").s
                  /\ last.value # Null => Get(last.value, "schema") = last.calls[1].res
            /\ schema = Undef => last.value = Null

\* 201, 204 and 404 declared, in another order: the response under 201 is
\* the one analysed
C24_Witness ==
  /\ IsAnalysis
  /\ ~Has(Declared, "200") /\ Has(Declared, "201") /\ Has(Declared, "204")
  /\ Has(Declared, "404")
  /\ Declared.ent[1].k = "404"
  /\ last.value # Null
  /\ Get(last.value, "schema") = SchemaUnder("201")
  /\ Get(last.value, "wrapperKeys") = Arr(<<Str("r201")>>)

\* the keys of the properties that are object schemas or references
WrapperKeysOf(schema) ==
  LET properties == Get(schema, "properties")
      keys == [i \in 1..Len(properties.ent) |-> properties.ent[i].k]
  IN SelectSeq(keys, LAMBDA k : \/ Get(Get(properties, k), "type") = Str("object")
                                \/ Has(Get(properties, k), "$ref"))

\* C25: for a response schema that is not an array, wrapperKeys are the
\* top-level properties whose value is an object schema or a reference, in
\* declaration order, primaryResource is the first of them (null when there
\* is none), and hasActions is true exactly when action or actions is among
\* them.
C25_WrapperKeys ==
  (IsAnalysis /\ last.value # Null /\ Get(last.value, "isArray") = Bool(FALSE))
  => LET wrappers == WrapperKeysOf(Get(last.value, "schema"))
     IN /\ Get(last.value, "wrapperKeys") = Arr([i \in 1..Len(wrappers) |-> Str(wrappers[i])])
        /\ Get(last.value, "primaryResource")
           = IF wrappers = <<>> THEN Null ELSE Str(wrappers[1])
        /\ Get(last.value, "hasActions")
           = Bool(\E i \in 1..Len(wrappers) : wrappers[i] \in {"action", "actions"})

\* count, then the reference actions, then the reference server
C25_Witness ==
  /\ IsAnalysis
  /\ last.value # Null
  /\ Get(Get(last.value, "schema"), "properties")
     = Obj(<<KV("count", Obj(<<KV("type", Str("integer"))>>)),
             KV("actions", Ref(RefMissing)), KV("server", Ref(RefUser))>>)
  /\ Get(last.value, "wrapperKeys") = Arr(<<Str("actions"), Str("server")>>)
  /\ Get(last.value, "primaryResource") = Str("actions")
  /\ Get(last.value, "hasActions") = Bool(TRUE)

\* C29: the statusCode of the structure is the status under which the
\* analysed response is declared.
C29_StatusOfAnalysedResponse ==
  (IsAnalysis /\ last.value # Null)
  => /\ FirstSuccess # ""
     /\ Get(last.value, "schema") = SchemaUnder(FirstSuccess)
        => Get(last.value, "statusCode")
           = Num(CASE FirstSuccess = "200" -> 200 [] FirstSuccess = "201" -> 201
                   [] FirstSuccess = "202" -> 202 [] FirstSuccess = "204" -> 204)

(***************************************************************************)
(* Capacity of the example cache.                                          *)
(***************************************************************************)
\* C26: with a positive integer exampleSize, whatever requests were served
\* (hits, misses, rebuilds of expired entries), the example cache holds at
\* most exampleSize entries, one per key.
C26_AtMostExampleSize ==
  /\ exampleSize \in Nat \ {0}
  /\ Len(exampleCache) <= exampleSize
  /\ Cardinality(KeysOf(View(exampleCache))) = Len(exampleCache)

\* a full cache after more builds than it has room for, the last request a
\* miss served while the cache was full
C26_Witness ==
  /\ IsExampleRequest
  /\ last.outcome = "built"
  /\ builds > exampleSize
  /\ Len(last.cacheBefore) = exampleSize
  /\ Len(exampleCache) = exampleSize

\* the request found an entry for its own key, of age exampleTTL or more, in
\* a cache of exampleSize entries
StaleOwnKeyAtCapacity ==
  /\ IsExampleRequest
  /\ Len(last.cacheBefore) = exampleSize
  /\ \E i \in 1..Len(last.cacheBefore) :
       /\ last.cacheBefore[i].key = last.key
       /\ last.at - last.cacheBefore[i].timestamp >= exampleTTL

\* C30: a request that finds its own key stale while the cache is at
\* capacity evicts no other entry: nothing is removed between the cache
\* check and the insert, the cache afterwards holds the same keys as before,
\* the other entries are unchanged and in their order, and the rebuilt key
\* is the last in insertion order.
C30_RebuildEvictsNothing ==
  StaleOwnKeyAtCapacity
  => /\ last.beforeSet = last.afterCheck
     /\ KeysOf(View(exampleCache)) = KeysOf(last.cacheBefore)
     /\ Len(exampleCache) = exampleSize
     /\ SubSeq(View(exampleCache), 1, exampleSize - 1)
        = SelectSeq(last.cacheBefore, LAMBDA e : e.key # last.key)
     /\ exampleCache[exampleSize].key = last.key
     /\ exampleCache[exampleSize].example = last.example

\* the stale key was the earliest inserted, the one an eviction would take
C30_Witness ==
  /\ StaleOwnKeyAtCapacity
  /\ exampleSize > 1
  /\ last.cacheBefore[1].key = last.key
  /\ last.outcome = "built"
  /\ exampleCache[1].key = last.cacheBefore[2].key

(***************************************************************************)
(* Cache keys and the body of the generated call.                          *)
(***************************************************************************)
ExampleReturned == IsExampleRequest /\ last.outcome \in {"hit", "built"}

\* the usage code a build for the operation of the last request gives
UsageOfLast ==
  BuildUsage([cache |-> refCache, log |-> <<>>, t |-> now], last.api, last.path, last.method,
             Get(Get(Get(specs[last.api], "paths"), last.path), MethodLower(last.method))).lines

\* C27: requests that differ in api name, path or method never share a
\* cache entry: a request served from the cache had no other operation's
\* key, and the example a request returns is the example of its own
\* operation.
C27_KeyPerOperation ==
  ExampleReturned
  => /\ last.example.usage = UsageOfLast
     /\ last.outcome = "hit"
        => \A r \in Requests \cup GeoRequests :
             CacheKey(r[1], r[2], r[3]) = last.key => r = <<last.api, last.path, last.method>>

\* C28: when the generated call passes body, a declaration of body stands
\* earlier in the same usage code.
C28_BodyDeclaredBeforePassed ==
  ExampleReturned =>
    \A i \in 1..Len(last.example.usage) :
      last.example.usage[i] = Text("  body,")
      => \E j \in 1..(i - 1) : last.example.usage[j] = Text("const body: RequestBody = {")

====
